---------------------------- MODULE Spec2Model ----------------------------
(***************************************************************************)
(* Model of the URL shortener's allocation and access service              *)
(* (internal/service URLService), its PostgreSQL repositories, the Redis   *)
(* cache and the domain model, with the Redis rate limiter (ratelimit)     *)
(* and the HTTP layer's TimeoutMiddleware.                                 *)
(*                                                                         *)
(* Strings are sequences of one-character strings, so that length and      *)
(* character tests are computed as the Go code computes them.  A nil       *)
(* pointer is the empty set {} and a non-nil pointer to v is {v}.          *)
(* Time is an integer clock; one unit stands for thirty minutes.           *)
(***************************************************************************)
EXTENDS Integers, Sequences, FiniteSets, TLC

(* ------------------------------ bounds -------------------------------- *)

\* number of concurrent request goroutines
NumProcs == 2
\* number of distinct values the random source can produce
NumRand == 2
\* rows the urls table may hold before callers stop creating
MaxURLs == 2
\* the clock stops ticking here
MaxTime == 2
\* click recordings stop being started once a counter reaches this
MaxClicks == 2

\* longest alias the validators are given
MaxAliasLen == 22
\* largest limit a rate limiter is built with
MaxRequests == 2
\* largest excess of a limiter's burst size over its limit
MaxBurst == 1

(* ------------------------- program constants -------------------------- *)

\* for i := 0; i < 10; i++
MaxAttempts == 10
\* s.generateUniqueShortCode(ctx, 6)
ShortCodeLength == 6
\* REDIS_CACHE_TTL default "1h" = two clock units
CacheTTL == 2
\* s.clickRepo.GetByURLID(ctx, url.ID, 100, 0)
StatsLimit == 100

Procs == 1..NumProcs

(* ------------------------------ strings ------------------------------- *)

Lower == {"a","b","c","d","e","f","g","h","i","j","k","l","m",
          "n","o","p","q","r","s","t","u","v","w","x","y","z"}
Upper == {"A","B","C","D","E","F","G","H","I","J","K","L","M",
          "N","O","P","Q","R","S","T","U","V","W","X","Y","Z"}
Digit == {"0","1","2","3","4","5","6","7","8","9"}

\* const charset in generateShortCode
charset == <<"a","b","c","d","e","f","g","h","i","j","k","l","m",
             "n","o","p","q","r","s","t","u","v","w","x","y","z",
             "A","B","C","D","E","F","G","H","I","J","K","L","M",
             "N","O","P","Q","R","S","T","U","V","W","X","Y","Z",
             "0","1","2","3","4","5","6","7","8","9">>

Nil == {}
Some(v) == {v}
Deref(ptr) == CHOOSE v \in ptr : TRUE

\* unicode.IsSpace restricted to the characters the inputs use
IsSpace(c) == c \in {" ", "\t", "\n"}

RECURSIVE TrimLeft(_)
TrimLeft(s) ==
    IF s = <<>> THEN <<>>
    ELSE IF IsSpace(Head(s)) THEN TrimLeft(Tail(s)) ELSE s

RECURSIVE TrimRight(_)
TrimRight(s) ==
    IF s = <<>> THEN <<>>
    ELSE IF IsSpace(s[Len(s)]) THEN TrimRight(SubSeq(s, 1, Len(s) - 1)) ELSE s

\* strings.TrimSpace
TrimSpace(s) == TrimRight(TrimLeft(s))

HasPrefix(s, pre) == Len(s) >= Len(pre) /\ SubSeq(s, 1, Len(pre)) = pre

\* index of the first occurrence of character c in s, 0 when absent
RECURSIVE IndexFrom(_, _, _)
IndexFrom(s, c, i) ==
    IF i > Len(s) THEN 0
    ELSE IF s[i] = c THEN i ELSE IndexFrom(s, c, i + 1)

Index(s, c) == IndexFrom(s, c, 1)

\* the printable ASCII characters in the order of their codes, from 0x20
\* (the double quote, the backslash and the backquote by their code points)
ASCII ==
    << " ", "!", "U+0022", "#", "$", "%", "&", "'", "(", ")", "*", "+",
       ",", "-", ".", "/", "0", "1", "2", "3", "4", "5", "6", "7",
       "8", "9", ":", ";", "<", "=", ">", "?", "@", "A", "B", "C",
       "D", "E", "F", "G", "H", "I", "J", "K", "L", "M", "N", "O",
       "P", "Q", "R", "S", "T", "U", "V", "W", "X", "Y", "Z", "[",
       "U+005C", "]", "^", "_", "U+0060", "a", "b", "c", "d", "e", "f", "g",
       "h", "i", "j", "k", "l", "m", "n", "o", "p", "q", "r", "s",
       "t", "u", "v", "w", "x", "y", "z", "{", "|", "}", "~" >>

\* a rune outside ASCII: U+00E9, two bytes in UTF-8
EAcute == "U+00E9"

\* the code point of a rune
Ord(c) == IF c = EAcute THEN 233 ELSE 31 + Index(ASCII, c)

\* len(s) of a Go string: the number of its bytes
RECURSIVE ByteLen(_)
ByteLen(s) ==
    IF s = <<>> THEN 0
    ELSE (IF Ord(Head(s)) > 127 THEN 2 ELSE 1) + ByteLen(Tail(s))

(* ------------------------------ net/url ------------------------------- *)

\* net/url getScheme: (scheme, rest, err)
RECURSIVE getSchemeAt(_, _)
getSchemeAt(s, i) ==
    IF i > Len(s)
    THEN [scheme |-> <<>>, rest |-> s, err |-> FALSE]
    ELSE IF s[i] \in Lower \cup Upper
    THEN getSchemeAt(s, i + 1)
    ELSE IF s[i] \in Digit \cup {"+", "-", "."}
    THEN IF i = 1
         THEN [scheme |-> <<>>, rest |-> s, err |-> FALSE]
         ELSE getSchemeAt(s, i + 1)
    ELSE IF s[i] = ":"
    THEN IF i = 1
         THEN [scheme |-> <<>>, rest |-> <<>>, err |-> TRUE]
         ELSE [scheme |-> SubSeq(s, 1, i - 1),
               rest |-> SubSeq(s, i + 1, Len(s)), err |-> FALSE]
    ELSE [scheme |-> <<>>, rest |-> s, err |-> FALSE]

\* url.Parse for inputs without fragment, query, userinfo or escapes:
\* the scheme is split off, a rest that does not start with "/" is opaque
\* (with a scheme) or a path whose first segment may not hold a colon, and
\* a rest that starts with "//" yields the authority up to the next "/";
\* a space is not allowed in a host name.
Parse(rawURL) ==
    LET g == getSchemeAt(rawURL, 1)
        rest == g.rest
        noHost(e) == [Scheme |-> g.scheme, Host |-> <<>>, err |-> e]
    IN  IF g.err THEN noHost(TRUE)
        ELSE IF ~HasPrefix(rest, <<"/">>)
        THEN IF g.scheme # <<>>
             THEN noHost(FALSE)
             ELSE LET colon == Index(rest, ":")
                      slash == Index(rest, "/")
                  IN  noHost(colon > 0 /\ (slash = 0 \/ colon < slash))
        ELSE IF HasPrefix(rest, <<"/", "/">>)
                /\ (g.scheme # <<>> \/ ~HasPrefix(rest, <<"/", "/", "/">>))
        THEN LET after == SubSeq(rest, 3, Len(rest))
                 slash == Index(after, "/")
                 authority == IF slash = 0 THEN after
                              ELSE SubSeq(after, 1, slash - 1)
             IN  IF Index(authority, " ") > 0
                 THEN noHost(TRUE)
                 ELSE [Scheme |-> g.scheme, Host |-> authority, err |-> FALSE]
        ELSE noHost(FALSE)

(* ---------------------------- domain.URL ------------------------------ *)

ErrInvalidURL == "invalid URL format"
ErrEmptyURL == "URL cannot be empty"
ErrShortCodeTooShort == "short code must be at least 3 characters"
ErrURLExpired == "URL has expired"
ErrURLNotActive == "URL is not active"
ErrCustomAliasInvalid == "custom alias must be alphanumeric and 3-20 characters"

\* errors built with fmt.Errorf in the service and the repositories
ErrAliasExists == "custom alias already exists"
ErrCheckAlias == "failed to check custom alias"
ErrGenerate == "failed to generate short code"
ErrAttempts == "failed to generate unique short code after 10 attempts"
ErrCreate == "failed to create URL"
ErrNotFound == "URL not found"
ErrIncrement == "failed to increment clicks"
ErrGetClicks == "failed to get clicks"
ErrDelete == "failed to delete URL"
ErrCacheSet == "redis set error"
ErrUpdate == "failed to update URL"
ErrCreateClick == "failed to create click event"
NoErr == ""

\* isValidAlias violated by a length bound of 2..20
isValidAliasLoose(alias) ==
    /\ ~(ByteLen(alias) < 2 \/ ByteLen(alias) > 20)
    /\ \A k \in 1..Len(alias) :
          \/ Ord(alias[k]) >= Ord("a") /\ Ord(alias[k]) <= Ord("z")
          \/ Ord(alias[k]) >= Ord("A") /\ Ord(alias[k]) <= Ord("Z")
          \/ Ord(alias[k]) >= Ord("0") /\ Ord(alias[k]) <= Ord("9")
          \/ alias[k] = "-" \/ alias[k] = "_"

isValidAlias(alias) ==
    /\ ~(ByteLen(alias) < 3 \/ ByteLen(alias) > 20)
    /\ \A k \in 1..Len(alias) :
          \/ Ord(alias[k]) >= Ord("a") /\ Ord(alias[k]) <= Ord("z")
          \/ Ord(alias[k]) >= Ord("A") /\ Ord(alias[k]) <= Ord("Z")
          \/ Ord(alias[k]) >= Ord("0") /\ Ord(alias[k]) <= Ord("9")
          \/ alias[k] = "-" \/ alias[k] = "_"

(* --------------------------- pkg/validator ---------------------------- *)

ErrInvalidAliasLength == "ErrInvalidAliasLength"
ErrInvalidAliasFormat == "ErrInvalidAliasFormat"

isAlphanumeric(char) ==
    \/ Ord(char) >= Ord("a") /\ Ord(char) <= Ord("z")
    \/ Ord(char) >= Ord("A") /\ Ord(char) <= Ord("Z")
    \/ Ord(char) >= Ord("0") /\ Ord(char) <= Ord("9")

\* ValidateCustomAlias with the upper length test off by one
ValidateCustomAliasLong(alias) ==
    IF ByteLen(alias) < 3 \/ ByteLen(alias) > 21 THEN ErrInvalidAliasLength
    ELSE IF \E k \in 1..Len(alias) :
               ~isAlphanumeric(alias[k]) /\ alias[k] # "-" /\ alias[k] # "_"
    THEN ErrInvalidAliasFormat
    ELSE NoErr

ValidateCustomAlias(alias) ==
    IF ByteLen(alias) < 3 \/ ByteLen(alias) > 20 THEN ErrInvalidAliasLength
    ELSE IF \E k \in 1..Len(alias) :
               ~isAlphanumeric(alias[k]) /\ alias[k] # "-" /\ alias[k] # "_"
    THEN ErrInvalidAliasFormat
    ELSE NoErr

\* URL.IsExpired at clock value t
IsExpired(u, t) ==
    IF u.ExpiresAt = Nil THEN FALSE ELSE t > Deref(u.ExpiresAt)

\* URL.CanBeAccessed at clock value t
CanBeAccessed(u, t) ==
    IF ~u.IsActive THEN ErrURLNotActive
    ELSE IF IsExpired(u, t) THEN ErrURLExpired
    ELSE NoErr

\* URL.Validate with the host check left out
ValidateNoHost(u) ==
    IF TrimSpace(u.OriginalURL) = <<>> THEN ErrEmptyURL
    ELSE LET parsedURL == Parse(u.OriginalURL)
         IN  IF parsedURL.err THEN ErrInvalidURL
             ELSE IF parsedURL.Scheme # <<"h","t","t","p">>
                     /\ parsedURL.Scheme # <<"h","t","t","p","s">>
             THEN ErrInvalidURL
             ELSE IF Len(u.ShortCode) < 3 THEN ErrShortCodeTooShort
             ELSE IF u.CustomAlias # Nil /\ Deref(u.CustomAlias) # <<>>
                     /\ ~isValidAlias(Deref(u.CustomAlias))
             THEN ErrCustomAliasInvalid
             ELSE NoErr

Validate(u) ==
    IF TrimSpace(u.OriginalURL) = <<>> THEN ErrEmptyURL
    ELSE LET parsedURL == Parse(u.OriginalURL)
         IN  IF parsedURL.err THEN ErrInvalidURL
             ELSE IF parsedURL.Scheme # <<"h","t","t","p">>
                     /\ parsedURL.Scheme # <<"h","t","t","p","s">>
             THEN ErrInvalidURL
             ELSE IF parsedURL.Host = <<>> THEN ErrInvalidURL
             ELSE IF Len(u.ShortCode) < 3 THEN ErrShortCodeTooShort
             ELSE IF u.CustomAlias # Nil /\ Deref(u.CustomAlias) # <<>>
                     /\ ~isValidAlias(Deref(u.CustomAlias))
             THEN ErrCustomAliasInvalid
             ELSE NoErr

\* NewURL at clock value t; the ID is empty (0) until the store assigns it
NewURL(originalURL, shortCode, createdBy, t) ==
    [ID |-> 0, ShortCode |-> shortCode, OriginalURL |-> originalURL,
     CustomAlias |-> Nil, CreatedAt |-> t, ExpiresAt |-> Nil,
     Clicks |-> 0, CreatedBy |-> createdBy, IsActive |-> TRUE]

WithCustomAlias(u, alias) == [u EXCEPT !.CustomAlias = Some(alias)]

WithExpiration(u, duration, t) == [u EXCEPT !.ExpiresAt = Some(t + duration)]

\* NewURLClick at clock value t
NewURLClick(urlID, t) == [ID |-> 0, URLID |-> urlID, ClickedAt |-> t]

(* ------------------------------- state -------------------------------- *)

VARIABLES
    urls,        \* table urls: sequence of rows, a row's id is its position
    url_clicks,  \* table url_clicks: sequence of rows, id is the position
    cache,       \* Redis: key -> [data, exp], present keys only
    now,         \* the clock
    procs,       \* request goroutines: operation, position, locals, result
    okClicks,    \* per code: RecordClick calls that returned without error
    rl           \* the *RateLimiter the middleware holds, Nil when none

vars == <<urls, url_clicks, cache, now, procs, okClicks, rl>>

(* ----------------------- repository/postgres -------------------------- *)

RowIds == 1..Len(urls)

\* SELECT EXISTS(SELECT 1 FROM urls WHERE short_code = $1)
ExistsShortCode(shortCode) ==
    \E id \in RowIds : urls[id].ShortCode = shortCode

\* ExistsCustomAlias that skips soft-deleted rows
ExistsCustomAliasActiveOnly(alias) ==
    \E id \in RowIds : urls[id].CustomAlias = Some(alias) /\ urls[id].IsActive

\* SELECT EXISTS(SELECT 1 FROM urls WHERE custom_alias = $1)
ExistsCustomAlias(alias) ==
    \E id \in RowIds : urls[id].CustomAlias = Some(alias)

\* SELECT ... WHERE short_code = $1 AND is_active = true; Nil is ErrNoRows
GetByShortCode(shortCode) ==
    LET hit == {id \in RowIds :
                   urls[id].ShortCode = shortCode /\ urls[id].IsActive}
    IN  IF hit = {} THEN Nil ELSE Some(urls[CHOOSE id \in hit : TRUE])

\* SELECT ... WHERE custom_alias = $1 AND is_active = true; Nil is ErrNoRows
GetByCustomAlias(alias) ==
    LET hit == {id \in RowIds :
                   urls[id].CustomAlias = Some(alias) /\ urls[id].IsActive}
    IN  IF hit = {} THEN Nil ELSE Some(urls[CHOOSE id \in hit : TRUE])

\* the INSERT with no UNIQUE constraint on short_code and custom_alias
InsertAllowedNoUnique(u) ==
    Len(u.ShortCode) <= 20

\* the constraints of CREATE TABLE urls that an INSERT must meet:
\* short_code VARCHAR(20) UNIQUE NOT NULL, custom_alias VARCHAR(50) UNIQUE
InsertAllowed(u) ==
    /\ Len(u.ShortCode) <= 20
    /\ ~ExistsShortCode(u.ShortCode)
    /\ \/ u.CustomAlias = Nil
       \/ /\ Len(Deref(u.CustomAlias)) <= 50
          /\ ~ExistsCustomAlias(Deref(u.CustomAlias))

\* urlRepository.Create: the row as inserted, with the id RETURNING gives
InsertedRow(u) == [u EXCEPT !.ID = Len(urls) + 1]

\* the UPDATE of Delete flipping the flag
DeleteRowsToggled(id) ==
    [k \in RowIds |->
        IF k = id THEN [urls[k] EXCEPT !.IsActive = ~urls[k].IsActive]
        ELSE urls[k]]

\* UPDATE urls SET is_active = false WHERE id = $1
DeleteRows(id) ==
    [k \in RowIds |-> IF k = id THEN [urls[k] EXCEPT !.IsActive = FALSE]
                      ELSE urls[k]]

\* the UPDATE of Update writing the clicks of the record it is given too
UpdatedRowsWithClicks(u) ==
    [k \in RowIds |->
        IF k = u.ID
        THEN [urls[k] EXCEPT !.OriginalURL = u.OriginalURL,
                             !.CustomAlias = u.CustomAlias,
                             !.ExpiresAt = u.ExpiresAt,
                             !.IsActive = u.IsActive,
                             !.Clicks = u.Clicks]
        ELSE urls[k]]

\* UPDATE urls SET original_url = $1, custom_alias = $2, expires_at = $3,
\* is_active = $4 WHERE id = $5
UpdatedRows(u) ==
    [k \in RowIds |->
        IF k = u.ID
        THEN [urls[k] EXCEPT !.OriginalURL = u.OriginalURL,
                             !.CustomAlias = u.CustomAlias,
                             !.ExpiresAt = u.ExpiresAt,
                             !.IsActive = u.IsActive]
        ELSE urls[k]]

\* the increment as a write of a value the application read earlier
IncrementedRowsFromRead(shortCode, seen) ==
    [k \in RowIds |->
        IF urls[k].ShortCode = shortCode /\ urls[k].IsActive
        THEN [urls[k] EXCEPT !.Clicks = seen + 1]
        ELSE urls[k]]

\* UPDATE urls SET clicks = clicks + 1
\* WHERE short_code = $1 AND is_active = true
\* (seen is the Clicks value the caller read before; the statement ignores it)
IncrementedRows(shortCode, seen) ==
    [k \in RowIds |->
        IF urls[k].ShortCode = shortCode /\ urls[k].IsActive
        THEN [urls[k] EXCEPT !.Clicks = urls[k].Clicks + 1]
        ELSE urls[k]]

\* rows of url_clicks for one url, ORDER BY clicked_at DESC LIMIT $2 OFFSET 0;
\* rows with equal clicked_at come in an order the database picks: every
\* ranking of the tied rows gives one possible order
SortedDesc(ids) ==
    LET tied == {a \in ids : \E b \in ids \ {a} :
                    url_clicks[a].ClickedAt = url_clicks[b].ClickedAt}
        picks == {f \in [tied -> 1..Cardinality(tied)] :
                    \A a \in tied, b \in tied : a # b => f[a] # f[b]}
        before(f, a, b) ==
            \/ url_clicks[a].ClickedAt > url_clicks[b].ClickedAt
            \/ /\ url_clicks[a].ClickedAt = url_clicks[b].ClickedAt
               /\ a # b
               /\ f[a] < f[b]
        rank(f) == [k \in ids |-> Cardinality({i \in ids : before(f, i, k)})]
        order(f) == LET r == rank(f)
                    IN  [j \in 1..Cardinality(ids) |->
                            CHOOSE k \in ids : r[k] = j - 1]
    IN  {order(f) : f \in picks}

\* the SELECT without its ORDER BY: the rows come as they were inserted
GetByURLIDUnordered(urlID, limit) ==
    LET ids == {k \in 1..Len(url_clicks) : url_clicks[k].URLID = urlID}
        nth(j) == CHOOSE k \in ids : Cardinality({i \in ids : i < k}) = j - 1
        n == IF Cardinality(ids) < limit THEN Cardinality(ids) ELSE limit
    IN  {[j \in 1..n |-> url_clicks[nth(j)]]}

GetByURLID(urlID, limit) ==
    LET ids == {k \in 1..Len(url_clicks) : url_clicks[k].URLID = urlID}
    IN  {[j \in 1..(IF Len(order) < limit THEN Len(order) ELSE limit) |->
             url_clicks[order[j]]] : order \in SortedDesc(ids)}

(* --------------------------- cache (Redis) ---------------------------- *)

JSONPtr(ptr, zero) ==
    IF ptr = Nil THEN [null |-> TRUE, v |-> zero]
    ELSE [null |-> FALSE, v |-> Deref(ptr)]

PtrJSON(j) == IF j.null THEN Nil ELSE Some(j.v)

\* json.Marshal(url): nil pointers become null
Marshal(u) ==
    [ID |-> u.ID, ShortCode |-> u.ShortCode, OriginalURL |-> u.OriginalURL,
     CustomAlias |-> JSONPtr(u.CustomAlias, <<>>), CreatedAt |-> u.CreatedAt,
     ExpiresAt |-> JSONPtr(u.ExpiresAt, 0), Clicks |-> u.Clicks,
     CreatedBy |-> u.CreatedBy, IsActive |-> u.IsActive]

\* json.Unmarshal(data, &url)
Unmarshal(d) ==
    [ID |-> d.ID, ShortCode |-> d.ShortCode, OriginalURL |-> d.OriginalURL,
     CustomAlias |-> PtrJSON(d.CustomAlias), CreatedAt |-> d.CreatedAt,
     ExpiresAt |-> PtrJSON(d.ExpiresAt), Clicks |-> d.Clicks,
     CreatedBy |-> d.CreatedBy, IsActive |-> d.IsActive]

\* Cache.GetURL on a reachable Redis: Nil is redis.Nil (a miss); a key whose
\* TTL has run out is gone
CacheGetURL(shortCode) ==
    IF shortCode \in DOMAIN cache /\ now < cache[shortCode].exp
    THEN Some(Unmarshal(cache[shortCode].data))
    ELSE Nil

\* Cache.SetURL on a reachable Redis: SET key data EX ttl
CacheSetURL(shortCode, u) ==
    [k \in DOMAIN cache \cup {shortCode} |->
        IF k = shortCode THEN [data |-> Marshal(u), exp |-> now + CacheTTL]
        ELSE cache[k]]

\* Redis drops the keys whose TTL has run out at clock value t
Unexpired(t) ==
    [k \in {c \in DOMAIN cache : t < cache[c].exp} |-> cache[k]]

(* ----------------------------- ratelimit ------------------------------ *)

ErrRateLimit == "rate limit check failed"

\* NewTokenBucketLimiter(client, maxRequests, window, burstSize); window is
\* a whole number of clock units
NewTokenBucketLimiter(maxRequests, window, burstSize) ==
    [maxRequests |-> maxRequests, window |-> window, burstSize |-> burstSize]

\* redisKey := fmt.Sprintf("ratelimit:%s", key)
RedisKey(key) == <<"ratelimit:">> \o key

\* windowSeconds := int(rl.window.Seconds()), in clock units
WindowSeconds(l) == l.window

\* the counter under a key, Nil once its TTL has run out (GET returns false)
Counter(redisKey) ==
    IF redisKey \in DOMAIN cache /\ now < cache[redisKey].exp
    THEN Some(cache[redisKey])
    ELSE Nil

\* redis.call('SET', key, 1, 'EX', window) and redis.call('INCR', key)
StoreCounter(redisKey, c) ==
    [k \in DOMAIN cache \cup {redisKey} |->
        IF k = redisKey THEN c ELSE cache[k]]

\* SET key 1 EX window is an error for a window below one second
SetFails(l) == WindowSeconds(l) <= 0

\* if current < max_requests then
UnderLimit(current, max_requests) == current < max_requests

\* the Lua script of Allow, which Redis runs as one step: its reply
\* {allowed, remaining, reset time} and the store it leaves
Script(redisKey, max_requests, window, current_time) ==
    LET current == Counter(redisKey)
    IN  IF current = Nil
        THEN [reply |-> <<1, max_requests - 1, current_time + window>>,
              store |-> StoreCounter(redisKey,
                           [data |-> 1, exp |-> now + window, served |-> 0])]
        ELSE LET c   == Deref(current)
                 ttl == c.exp - now
             IN  IF UnderLimit(c.data, max_requests)
                 THEN [reply |-> <<1, max_requests - c.data - 1,
                                   current_time + ttl>>,
                       store |-> StoreCounter(redisKey,
                                    [c EXCEPT !.data = @ + 1])]
                 ELSE [reply |-> <<0, 0, current_time + ttl>>,
                       store |-> cache]

(* ------------------------------ inputs -------------------------------- *)

\* what crypto/rand may put into the byte slice (every byte the same value)
RandBytes(length) == {[k \in 1..length |-> b] : b \in 0..(NumRand - 1)}

\* generateShortCode with bytes from the secure source
generateShortCode(bytes) ==
    [k \in 1..Len(bytes) |-> charset[(bytes[k] % Len(charset)) + 1]]

GenCodes == {generateShortCode(bytes) : bytes \in RandBytes(ShortCodeLength)}

ValidTarget == <<"h","t","t","p",":","/","/","a">>
Targets ==
    { ValidTarget,
      <<>>,
      <<" ">>,
      <<"f","t","p",":","/","/","a">>,
      <<"h","t","t","p",":","/","/","/">>,
      <<"n","-","u">> }

GoodAlias == <<"a","b","c">>
ShortAlias == <<"a","b">>
BadCharAlias == <<"a","@","b">>
GenAlias == generateShortCode([k \in 1..ShortCodeLength |-> 0])
Aliases == {<<>>, GoodAlias, ShortAlias, BadCharAlias, GenAlias}

Durations == {-1, 0, 1}

\* what callers pass as shortCode to GetURL, RecordClick and GetURLStats
Lookups == GenCodes \cup {GoodAlias}

(* ----------------------------- goroutines ----------------------------- *)

\* a goroutine that runs no service call
Idle ==
    [op |-> "idle", pc |-> "idle",
     originalURL |-> <<>>, customAlias |-> <<>>, expiresIn |-> 0,
     shortCode |-> <<>>, id |-> 0,
     i |-> 0, url |-> Nil,
     retURL |-> Nil, retClicks |-> <<>>, err |-> NoErr,
     \* what the call has done so far
     nExists |-> 0, nTaken |-> 0, nCreate |-> 0, nSet |-> 0,
     nInc |-> 0, aliasUsed |-> FALSE, genCodeUsed |-> FALSE,
     backendErr |-> FALSE, hit |-> FALSE, refURL |-> Nil, refErr |-> NoErr,
     createFailed |-> FALSE, setFailed |-> FALSE, nStore |-> 0, at |-> 0,
     \* the context the call runs under, and for a handler the goroutine
     \* it started
     ctx |-> "Background", inHandler |-> FALSE, child |-> 0,
     aborted |-> FALSE, nAppend |-> 0,
     incFailed |-> FALSE, appendFailed |-> FALSE, ok |-> FALSE,
     \* RateLimiter.Allow: its key, its results, and the number of allowed
     \* calls the key's counter had served when the script ran
     key |-> <<>>, allowed |-> FALSE, remaining |-> 0, resetTime |-> 0,
     servedBefore |-> 0,
     \* TimeoutMiddleware: the calls made on its ResponseWriter, the deadline
     \* of ctx, the done channel; for the handler it starts, its starter
     w |-> <<>>, deadline |-> 0, doneClosed |-> FALSE, timedOut |-> FALSE,
     parent |-> 0]

Return(self, u, e) ==
    [procs[self] EXCEPT !.pc = "done", !.retURL = u, !.err = e]

(* -------------------- URLService.CreateShortURL ----------------------- *)

CallCreateShortURL(self, targets, aliases, durations) ==
    /\ procs[self].pc = "idle"
    /\ Len(urls) < MaxURLs
    /\ \E originalURL \in targets, customAlias \in aliases,
          expiresIn \in durations :
          UNCHANGED rl /\ procs' = [procs EXCEPT ![self] =
                      [Idle EXCEPT !.op = "CreateShortURL",
                                   !.pc = IF customAlias # <<>>
                                          THEN "ExistsCustomAlias"
                                          ELSE "generateUniqueShortCode",
                                   !.originalURL = originalURL,
                                   !.customAlias = customAlias,
                                   !.expiresIn = expiresIn]]
    /\ UNCHANGED <<urls, url_clicks, cache, now, okClicks>>

\* domain.NewURL ... url.Validate() with a positive duration not required
BuildNoGuard(pr, shortCode) ==
    LET u0 == NewURL(pr.originalURL, shortCode, "u1", now)
        u1 == IF pr.customAlias # <<>>
              THEN WithCustomAlias(u0, pr.customAlias) ELSE u0
        u2 == IF pr.expiresIn # 0
              THEN WithExpiration(u1, pr.expiresIn, now) ELSE u1
    IN  u2

\* CreateShortURL from domain.NewURL up to the call of url.Validate()
Build(pr, shortCode) ==
    LET u0 == NewURL(pr.originalURL, shortCode, "u1", now)
        u1 == IF pr.customAlias # <<>>
              THEN WithCustomAlias(u0, pr.customAlias) ELSE u0
        u2 == IF pr.expiresIn > 0
              THEN WithExpiration(u1, pr.expiresIn, now) ELSE u1
    IN  u2

\* the code is resolved: build the url and validate it
Resolved(pr, shortCode) ==
    LET u == Build(pr, shortCode)
        e == Validate(u)
    IN  IF e # NoErr
        THEN [pr EXCEPT !.pc = "done", !.shortCode = shortCode, !.err = e]
        ELSE [pr EXCEPT !.pc = "Create", !.shortCode = shortCode,
                        !.url = Some(u)]

\* CreateShortURL validating the url before it asks for the alias
CreateExistsCustomAliasValidated(self) ==
    LET pr == procs[self]
        seen == [pr EXCEPT !.nExists = @ + 1,
                    !.aliasUsed = \E id \in RowIds :
                                     urls[id].CustomAlias = Some(pr.customAlias),
                    !.genCodeUsed = \E id \in RowIds :
                                     /\ urls[id].ShortCode = pr.customAlias
                                     /\ urls[id].CustomAlias = Nil]
    IN  /\ pr.op = "CreateShortURL" /\ pr.pc = "ExistsCustomAlias"
        /\ \E dbErr \in BOOLEAN :
              UNCHANGED rl /\ procs' = [procs EXCEPT ![self] =
                  IF Validate(Build(pr, pr.customAlias)) # NoErr
                  THEN Resolved(seen, pr.customAlias)
                  ELSE IF dbErr
                  THEN [seen EXCEPT !.pc = "done", !.err = ErrCheckAlias,
                                    !.backendErr = TRUE]
                  ELSE IF ExistsCustomAlias(pr.customAlias)
                  THEN [seen EXCEPT !.pc = "done", !.err = ErrAliasExists,
                                    !.nTaken = @ + 1]
                  ELSE Resolved(seen, pr.customAlias)]
        /\ UNCHANGED <<urls, url_clicks, cache, now, okClicks>>

\* s.urlRepo.ExistsCustomAlias and, when the alias is free, the steps up to
\* s.urlRepo.Create
CreateExistsCustomAlias(self) ==
    LET pr == procs[self]
        seen == [pr EXCEPT !.nExists = @ + 1,
                    !.aliasUsed = \E id \in RowIds :
                                     urls[id].CustomAlias = Some(pr.customAlias),
                    !.genCodeUsed = \E id \in RowIds :
                                     /\ urls[id].ShortCode = pr.customAlias
                                     /\ urls[id].CustomAlias = Nil]
    IN  /\ pr.op = "CreateShortURL" /\ pr.pc = "ExistsCustomAlias"
        /\ \E dbErr \in BOOLEAN :
              UNCHANGED rl /\ procs' = [procs EXCEPT ![self] =
                  IF dbErr
                  THEN [seen EXCEPT !.pc = "done", !.err = ErrCheckAlias,
                                    !.backendErr = TRUE]
                  ELSE IF ExistsCustomAlias(pr.customAlias)
                  THEN [seen EXCEPT !.pc = "done", !.err = ErrAliasExists,
                                    !.nTaken = @ + 1]
                  ELSE Resolved(seen, pr.customAlias)]
        /\ UNCHANGED <<urls, url_clicks, cache, now, okClicks>>

\* the loop of generateUniqueShortCode running one attempt too few
MoreAttemptsOneLess(i) == i + 1 < MaxAttempts - 1

\* for i := 0; i < 10; i++ : is there another attempt after attempt i
MoreAttempts(i) == i + 1 < MaxAttempts

\* one iteration of the loop of generateUniqueShortCode and, when the code
\* is free, the steps of CreateShortURL up to s.urlRepo.Create
CreateGenerate(self) ==
    LET pr == procs[self]
    IN  /\ pr.op = "CreateShortURL" /\ pr.pc = "generateUniqueShortCode"
        /\ \E bytes \in RandBytes(ShortCodeLength), dbErr \in BOOLEAN :
              LET code == generateShortCode(bytes)
                  seen == [pr EXCEPT !.nExists = @ + 1]
              IN  UNCHANGED rl /\ procs' = [procs EXCEPT ![self] =
                      IF dbErr
                      THEN [seen EXCEPT !.pc = "done", !.err = ErrGenerate,
                                        !.backendErr = TRUE]
                      ELSE IF ~ExistsShortCode(code)
                      THEN Resolved(seen, code)
                      ELSE IF MoreAttempts(pr.i)
                      THEN [seen EXCEPT !.i = @ + 1, !.nTaken = @ + 1]
                      ELSE [seen EXCEPT !.pc = "done", !.err = ErrAttempts,
                                        !.i = @ + 1, !.nTaken = @ + 1]]
        /\ UNCHANGED <<urls, url_clicks, cache, now, okClicks>>

\* CreateShortURL writing the cache before s.urlRepo.Create has answered
CreateInsertCacheFirst(self) ==
    LET pr == procs[self]
        u == Deref(pr.url)
    IN  /\ pr.op = "CreateShortURL" /\ pr.pc = "Create"
        /\ cache' = CacheSetURL(pr.shortCode, InsertedRow(u))
        /\ \E dbErr \in BOOLEAN :
              IF dbErr \/ ~InsertAllowed(u)
              THEN /\ UNCHANGED rl /\ procs' = [procs EXCEPT ![self] =
                                  [pr EXCEPT !.pc = "done", !.err = ErrCreate,
                                             !.nCreate = @ + 1,
                                             !.backendErr = dbErr,
                                             !.createFailed = TRUE]]
                   /\ UNCHANGED urls
              ELSE /\ urls' = Append(urls, InsertedRow(u))
                   /\ UNCHANGED rl /\ procs' = [procs EXCEPT ![self] =
                                  [pr EXCEPT !.pc = "SetURL",
                                             !.url = Some(InsertedRow(u)),
                                             !.nCreate = @ + 1]]
        /\ UNCHANGED <<url_clicks, now, okClicks>>

\* s.urlRepo.Create: the INSERT fails on a backend error or on a constraint
CreateInsert(self) ==
    LET pr == procs[self]
        u == Deref(pr.url)
    IN  /\ pr.op = "CreateShortURL" /\ pr.pc = "Create"
        /\ \E dbErr \in BOOLEAN :
              IF dbErr \/ ~InsertAllowed(u)
              THEN /\ UNCHANGED rl /\ procs' = [procs EXCEPT ![self] =
                                  [pr EXCEPT !.pc = "done", !.err = ErrCreate,
                                             !.nCreate = @ + 1,
                                             !.backendErr = dbErr,
                                             !.createFailed = TRUE]]
                   /\ UNCHANGED urls
              ELSE /\ urls' = Append(urls, InsertedRow(u))
                   /\ UNCHANGED rl /\ procs' = [procs EXCEPT ![self] =
                                  [pr EXCEPT !.pc = "SetURL",
                                             !.url = Some(InsertedRow(u)),
                                             !.nCreate = @ + 1]]
        /\ UNCHANGED <<url_clicks, cache, now, okClicks>>

\* CreateShortURL returning the failure of s.cache.SetURL to its caller
CreateSetURLFatal(self) ==
    LET pr == procs[self]
    IN  /\ pr.op = "CreateShortURL" /\ pr.pc = "SetURL"
        /\ \E cacheErr \in BOOLEAN :
              /\ cache' = IF cacheErr THEN cache
                          ELSE CacheSetURL(pr.shortCode, Deref(pr.url))
              /\ UNCHANGED rl /\ procs' = [procs EXCEPT ![self] =
                     [Return(self, IF cacheErr THEN Nil ELSE pr.url,
                             IF cacheErr THEN ErrCacheSet ELSE NoErr)
                         EXCEPT !.nSet = @ + 1, !.setFailed = cacheErr]]
        /\ UNCHANGED <<urls, url_clicks, now, okClicks>>

\* s.cache.SetURL after the insert; a failure is only printed
CreateSetURL(self) ==
    LET pr == procs[self]
    IN  /\ pr.op = "CreateShortURL" /\ pr.pc = "SetURL"
        /\ \E cacheErr \in BOOLEAN :
              /\ cache' = IF cacheErr THEN cache
                          ELSE CacheSetURL(pr.shortCode, Deref(pr.url))
              /\ UNCHANGED rl /\ procs' = [procs EXCEPT ![self] =
                     [Return(self, pr.url, NoErr)
                         EXCEPT !.nSet = @ + 1, !.setFailed = cacheErr]]
        /\ UNCHANGED <<urls, url_clicks, now, okClicks>>

(* ------------------------- URLService.GetURL -------------------------- *)

CallGetURL(self) ==
    /\ procs[self].pc = "idle"
    /\ \E shortCode \in Lookups :
          UNCHANGED rl /\ procs' = [procs EXCEPT ![self] =
                      [Idle EXCEPT !.op = "GetURL", !.pc = "cache.GetURL",
                                   !.shortCode = shortCode]]
    /\ UNCHANGED <<urls, url_clicks, cache, now, okClicks>>

\* GetURL of a service whose cache always misses, run in one piece against
\* the store: GetByShortCode, then GetByCustomAlias, then CanBeAccessed
GetURLWithoutCache(shortCode) ==
    LET byCode == GetByShortCode(shortCode)
        found == IF byCode # Nil THEN byCode ELSE GetByCustomAlias(shortCode)
    IN  IF found = Nil THEN [url |-> Nil, err |-> ErrNotFound]
        ELSE IF CanBeAccessed(Deref(found), now) # NoErr
        THEN [url |-> Nil, err |-> CanBeAccessed(Deref(found), now)]
        ELSE [url |-> found, err |-> NoErr]

\* GetURL run in one piece with a reachable cache and store
GetURLNow(shortCode) ==
    LET cachedURL == CacheGetURL(shortCode)
    IN  IF cachedURL # Nil
        THEN IF CanBeAccessed(Deref(cachedURL), now) # NoErr
             THEN [url |-> Nil, err |-> CanBeAccessed(Deref(cachedURL), now)]
             ELSE [url |-> cachedURL, err |-> NoErr]
        ELSE GetURLWithoutCache(shortCode)

\* GetURL confirming a cache hit against the store before it answers
GetCacheConfirmed(self) ==
    LET pr == procs[self]
        cachedURL == CacheGetURL(pr.shortCode)
        ref == GetURLWithoutCache(pr.shortCode)
    IN  /\ pr.op = "GetURL" /\ pr.pc = "cache.GetURL"
        /\ \E cacheErr \in BOOLEAN :
              UNCHANGED rl /\ procs' = [procs EXCEPT ![self] =
                  IF ~cacheErr /\ cachedURL # Nil
                  THEN [pr EXCEPT !.pc = "done", !.hit = TRUE,
                                  !.url = cachedURL, !.at = now,
                                  !.nStore = @ + 1,
                                  !.retURL = ref.url, !.err = ref.err,
                                  !.refURL = ref.url, !.refErr = ref.err]
                  ELSE [pr EXCEPT !.pc = "GetByShortCode"]]
        /\ UNCHANGED <<urls, url_clicks, cache, now, okClicks>>

\* STEP 1: s.cache.GetURL; on a hit the answer comes from the cached record
GetCache(self) ==
    LET pr == procs[self]
        cachedURL == CacheGetURL(pr.shortCode)
        ref == GetURLWithoutCache(pr.shortCode)
    IN  /\ pr.op = "GetURL" /\ pr.pc = "cache.GetURL"
        /\ \E cacheErr \in BOOLEAN :
              UNCHANGED rl /\ procs' = [procs EXCEPT ![self] =
                  IF ~cacheErr /\ cachedURL # Nil
                  THEN LET e == CanBeAccessed(Deref(cachedURL), now)
                       IN  [pr EXCEPT !.pc = "done", !.hit = TRUE,
                                      !.url = cachedURL, !.at = now,
                                      !.retURL = IF e # NoErr THEN Nil
                                                 ELSE cachedURL,
                                      !.err = e,
                                      !.refURL = ref.url, !.refErr = ref.err]
                  ELSE [pr EXCEPT !.pc = "GetByShortCode"]]
        /\ UNCHANGED <<urls, url_clicks, cache, now, okClicks>>

\* the record came from the store: CanBeAccessed, then on to the cache write
Fetched(pr, u) ==
    LET e == CanBeAccessed(u, now)
    IN  IF e # NoErr
        THEN [pr EXCEPT !.pc = "done", !.err = e, !.url = Some(u), !.at = now]
        ELSE [pr EXCEPT !.pc = "SetURL", !.url = Some(u), !.at = now]

\* STEP 2: s.urlRepo.GetByShortCode; any error leads to the alias lookup
GetLookupCode(self) ==
    LET pr == [procs[self] EXCEPT !.nStore = @ + 1]
        found == GetByShortCode(pr.shortCode)
    IN  /\ pr.op = "GetURL" /\ pr.pc = "GetByShortCode"
        /\ \E dbErr \in BOOLEAN :
              UNCHANGED rl /\ procs' = [procs EXCEPT ![self] =
                  IF dbErr THEN [pr EXCEPT !.pc = "GetByCustomAlias",
                                           !.backendErr = TRUE]
                  ELSE IF found = Nil THEN [pr EXCEPT !.pc = "GetByCustomAlias"]
                  ELSE Fetched(pr, Deref(found))]
        /\ UNCHANGED <<urls, url_clicks, cache, now, okClicks>>

\* s.urlRepo.GetByCustomAlias; any error is reported as "URL not found"
GetLookupAlias(self) ==
    LET pr == [procs[self] EXCEPT !.nStore = @ + 1]
        found == GetByCustomAlias(pr.shortCode)
    IN  /\ pr.op = "GetURL" /\ pr.pc = "GetByCustomAlias"
        /\ \E dbErr \in BOOLEAN :
              UNCHANGED rl /\ procs' = [procs EXCEPT ![self] =
                  IF dbErr THEN [pr EXCEPT !.pc = "done", !.err = ErrNotFound,
                                           !.backendErr = TRUE]
                  ELSE IF found = Nil
                  THEN [pr EXCEPT !.pc = "done", !.err = ErrNotFound]
                  ELSE Fetched(pr, Deref(found))]
        /\ UNCHANGED <<urls, url_clicks, cache, now, okClicks>>

\* GetURL returning the record without populating the cache
GetSetURLSkipped(self) ==
    LET pr == procs[self]
    IN  /\ pr.op = "GetURL" /\ pr.pc = "SetURL"
        /\ UNCHANGED rl /\ procs' = [procs EXCEPT ![self] =
                        [Return(self, pr.url, NoErr) EXCEPT !.nSet = @ + 1]]
        /\ UNCHANGED <<urls, url_clicks, cache, now, okClicks>>

\* STEP 3: s.cache.SetURL; a failure is only printed
GetSetURL(self) ==
    LET pr == procs[self]
    IN  /\ pr.op = "GetURL" /\ pr.pc = "SetURL"
        /\ \E cacheErr \in BOOLEAN :
              /\ cache' = IF cacheErr THEN cache
                          ELSE CacheSetURL(pr.shortCode, Deref(pr.url))
              /\ UNCHANGED rl /\ procs' = [procs EXCEPT ![self] =
                     [Return(self, pr.url, NoErr)
                         EXCEPT !.nSet = @ + 1, !.setFailed = cacheErr]]
        /\ UNCHANGED <<urls, url_clicks, now, okClicks>>

(* ----------------------- URLService.RecordClick ----------------------- *)

\* ctx.Done() is closed: pgxpool turns down every call made with this context
Canceled(pr) == pr.ctx = "Canceled"

CallRecordClick(self) ==
    /\ procs[self].pc = "idle"
    /\ \A id \in RowIds : urls[id].Clicks < MaxClicks
    /\ \E shortCode \in Lookups :
          UNCHANGED rl /\ procs' = [procs EXCEPT ![self] =
                      [Idle EXCEPT !.op = "RecordClick",
                                   !.pc = "GetByShortCode",
                                   !.shortCode = shortCode]]
    /\ UNCHANGED <<urls, url_clicks, cache, now, okClicks>>

\* RecordClick resolving the code from the cache before it asks the store
ClickLookupCached(self) ==
    LET found == GetByShortCode(procs[self].shortCode)
        pr == [procs[self] EXCEPT !.refURL = found]
        cachedURL == CacheGetURL(pr.shortCode)
    IN  /\ pr.op = "RecordClick" /\ pr.pc = "GetByShortCode"
        /\ \E dbErr \in BOOLEAN :
              UNCHANGED rl /\ procs' = [procs EXCEPT ![self] =
                  IF cachedURL # Nil
                  THEN [pr EXCEPT !.pc = "IncrementClicks", !.url = cachedURL]
                  ELSE IF dbErr \/ Canceled(pr)
                  THEN [pr EXCEPT !.pc = "done", !.err = ErrNotFound,
                                  !.backendErr = dbErr,
                                  !.aborted = Canceled(pr)]
                  ELSE IF found = Nil
                  THEN [pr EXCEPT !.pc = "done", !.err = ErrNotFound]
                  ELSE [pr EXCEPT !.pc = "IncrementClicks", !.url = found]]
        /\ UNCHANGED <<urls, url_clicks, cache, now, okClicks>>

\* s.urlRepo.GetByShortCode
ClickLookup(self) ==
    LET found == GetByShortCode(procs[self].shortCode)
        pr == [procs[self] EXCEPT !.refURL = found]
    IN  /\ pr.op = "RecordClick" /\ pr.pc = "GetByShortCode"
        /\ \E dbErr \in BOOLEAN :
              UNCHANGED rl /\ procs' = [procs EXCEPT ![self] =
                  IF dbErr \/ Canceled(pr)
                  THEN [pr EXCEPT !.pc = "done", !.err = ErrNotFound,
                                  !.backendErr = dbErr,
                                  !.aborted = Canceled(pr)]
                  ELSE IF found = Nil
                  THEN [pr EXCEPT !.pc = "done", !.err = ErrNotFound]
                  ELSE [pr EXCEPT !.pc = "IncrementClicks", !.url = found]]
        /\ UNCHANGED <<urls, url_clicks, cache, now, okClicks>>

\* RecordClick going on to s.clickRepo.Create when IncrementClicks failed
ClickIncrementIgnored(self) ==
    LET pr == procs[self]
    IN  /\ pr.op = "RecordClick" /\ pr.pc = "IncrementClicks"
        /\ \E dbErr \in BOOLEAN :
              IF dbErr \/ Canceled(pr) \/ GetByShortCode(pr.shortCode) = Nil
              THEN /\ UNCHANGED rl /\ procs' = [procs EXCEPT ![self] =
                                  [pr EXCEPT !.pc = "clickRepo.Create",
                                             !.backendErr = dbErr,
                                             !.aborted = Canceled(pr),
                                             !.incFailed = TRUE]]
                   /\ UNCHANGED urls
              ELSE /\ urls' = IncrementedRows(pr.shortCode,
                                              Deref(pr.url).Clicks)
                   /\ UNCHANGED rl /\ procs' = [procs EXCEPT ![self] =
                                  [pr EXCEPT !.pc = "clickRepo.Create",
                                             !.nInc = @ + 1]]
        /\ UNCHANGED <<url_clicks, cache, now, okClicks>>

\* s.urlRepo.IncrementClicks; no row affected is an error
ClickIncrement(self) ==
    LET pr == procs[self]
    IN  /\ pr.op = "RecordClick" /\ pr.pc = "IncrementClicks"
        /\ \E dbErr \in BOOLEAN :
              IF dbErr \/ Canceled(pr) \/ GetByShortCode(pr.shortCode) = Nil
              THEN /\ UNCHANGED rl /\ procs' = [procs EXCEPT ![self] =
                                  [pr EXCEPT !.pc = "done",
                                             !.err = ErrIncrement,
                                             !.backendErr = dbErr,
                                             !.aborted = Canceled(pr),
                                             !.incFailed = TRUE]]
                   /\ UNCHANGED urls
              ELSE /\ urls' = IncrementedRows(pr.shortCode,
                                              Deref(pr.url).Clicks)
                   /\ UNCHANGED rl /\ procs' = [procs EXCEPT ![self] =
                                  [pr EXCEPT !.pc = "clickRepo.Create",
                                             !.nInc = @ + 1]]
        /\ UNCHANGED <<url_clicks, cache, now, okClicks>>

\* RecordClick returning the failure of s.clickRepo.Create to its caller
ClickCreateFatal(self) ==
    LET pr == procs[self]
        click == NewURLClick(Deref(pr.url).ID, now)
    IN  /\ pr.op = "RecordClick" /\ pr.pc = "clickRepo.Create"
        /\ \E dbErr \in BOOLEAN :
              IF dbErr \/ Canceled(pr)
              THEN /\ UNCHANGED <<url_clicks, okClicks>>
                   /\ UNCHANGED rl /\ procs' = [procs EXCEPT ![self] =
                                  [Return(self, Nil, ErrCreateClick)
                                      EXCEPT !.appendFailed = TRUE]]
              ELSE /\ url_clicks' =
                         Append(url_clicks,
                                [click EXCEPT !.ID = Len(url_clicks) + 1])
                   /\ UNCHANGED rl /\ procs' = [procs EXCEPT ![self] =
                                  [Return(self, Nil, NoErr)
                                      EXCEPT !.nAppend = @ + 1]]
                   /\ okClicks' = [okClicks EXCEPT ![pr.shortCode] = @ + 1]
        /\ UNCHANGED <<urls, cache, now>>

\* s.clickRepo.Create; a failure is only printed
ClickCreate(self) ==
    LET pr == procs[self]
        click == NewURLClick(Deref(pr.url).ID, now)
    IN  /\ pr.op = "RecordClick" /\ pr.pc = "clickRepo.Create"
        /\ \E dbErr \in BOOLEAN :
              IF dbErr \/ Canceled(pr)
              THEN /\ UNCHANGED url_clicks
                   /\ UNCHANGED rl /\ procs' = [procs EXCEPT ![self] =
                                  [Return(self, Nil, NoErr)
                                      EXCEPT !.appendFailed = TRUE]]
              ELSE /\ url_clicks' =
                         Append(url_clicks,
                                [click EXCEPT !.ID = Len(url_clicks) + 1])
                   /\ UNCHANGED rl /\ procs' = [procs EXCEPT ![self] =
                                  [Return(self, Nil, NoErr)
                                      EXCEPT !.nAppend = @ + 1]]
        /\ okClicks' = [okClicks EXCEPT ![pr.shortCode] = @ + 1]
        /\ UNCHANGED <<urls, cache, now>>

(* ----------------------- URLService.GetURLStats ----------------------- *)

CallGetURLStats(self) ==
    /\ procs[self].pc = "idle"
    /\ \E shortCode \in Lookups :
          UNCHANGED rl /\ procs' = [procs EXCEPT ![self] =
                      [Idle EXCEPT !.op = "GetURLStats",
                                   !.pc = "GetByShortCode",
                                   !.shortCode = shortCode]]
    /\ UNCHANGED <<urls, url_clicks, cache, now, okClicks>>

\* s.urlRepo.GetByShortCode
StatsLookup(self) ==
    LET found == GetByShortCode(procs[self].shortCode)
        pr == [procs[self] EXCEPT !.refURL = found]
    IN  /\ pr.op = "GetURLStats" /\ pr.pc = "GetByShortCode"
        /\ \E dbErr \in BOOLEAN :
              UNCHANGED rl /\ procs' = [procs EXCEPT ![self] =
                  IF dbErr THEN [pr EXCEPT !.pc = "done", !.err = ErrNotFound,
                                           !.backendErr = TRUE]
                  ELSE IF found = Nil
                  THEN [pr EXCEPT !.pc = "done", !.err = ErrNotFound]
                  ELSE [pr EXCEPT !.pc = "GetByURLID", !.url = found]]
        /\ UNCHANGED <<urls, url_clicks, cache, now, okClicks>>

\* s.clickRepo.GetByURLID(ctx, url.ID, 100, 0)
StatsClicks(self) ==
    LET pr == procs[self]
    IN  /\ pr.op = "GetURLStats" /\ pr.pc = "GetByURLID"
        /\ \E dbErr \in BOOLEAN :
              IF dbErr
              THEN UNCHANGED rl /\ procs' = [procs EXCEPT ![self] =
                               [pr EXCEPT !.pc = "done", !.err = ErrGetClicks,
                                          !.backendErr = TRUE]]
              ELSE \E clicks \in GetByURLID(Deref(pr.url).ID, StatsLimit) :
                      UNCHANGED rl /\ procs' = [procs EXCEPT ![self] =
                                  [Return(self, pr.url, NoErr)
                                      EXCEPT !.retClicks = clicks]]
        /\ UNCHANGED <<urls, url_clicks, cache, now, okClicks>>

(* ------------------------ URLService.DeleteURL ------------------------ *)

CallDeleteURL(self) ==
    /\ procs[self].pc = "idle"
    /\ \E id \in 1..(Len(urls) + 1) :
          UNCHANGED rl /\ procs' = [procs EXCEPT ![self] =
                      [Idle EXCEPT !.op = "DeleteURL", !.pc = "Delete",
                                   !.id = id]]
    /\ UNCHANGED <<urls, url_clicks, cache, now, okClicks>>

\* DeleteURL dropping the cache entry of the link it deletes
DeleteExecInvalidating(self) ==
    LET pr == procs[self]
    IN  /\ pr.op = "DeleteURL" /\ pr.pc = "Delete"
        /\ \E dbErr \in BOOLEAN :
              IF dbErr \/ pr.id \notin RowIds
              THEN /\ UNCHANGED rl /\ procs' = [procs EXCEPT ![self] =
                                  [pr EXCEPT !.pc = "done",
                                      !.err = IF dbErr THEN ErrDelete
                                              ELSE ErrNotFound,
                                      !.backendErr = dbErr]]
                   /\ UNCHANGED <<urls, cache>>
              ELSE /\ urls' = DeleteRows(pr.id)
                   /\ cache' = [k \in DOMAIN cache \ {urls[pr.id].ShortCode}
                                   |-> cache[k]]
                   /\ UNCHANGED rl /\ procs' = [procs EXCEPT ![self] =
                                  Return(self, Nil, NoErr)]
        /\ UNCHANGED <<url_clicks, now, okClicks>>

\* s.urlRepo.Delete; no row affected is an error
DeleteExec(self) ==
    LET pr == procs[self]
    IN  /\ pr.op = "DeleteURL" /\ pr.pc = "Delete"
        /\ \E dbErr \in BOOLEAN :
              IF dbErr \/ pr.id \notin RowIds
              THEN /\ UNCHANGED rl /\ procs' = [procs EXCEPT ![self] =
                                  [pr EXCEPT !.pc = "done",
                                      !.err = IF dbErr THEN ErrDelete
                                              ELSE ErrNotFound,
                                      !.backendErr = dbErr]]
                   /\ UNCHANGED urls
              ELSE /\ urls' = DeleteRows(pr.id)
                   /\ UNCHANGED rl /\ procs' = [procs EXCEPT ![self] =
                                  Return(self, Nil, NoErr)]
        /\ UNCHANGED <<url_clicks, cache, now, okClicks>>

(* ------------------------ urlRepository.Update ------------------------ *)

\* a caller of the repository hands Update a record it read from the store
\* earlier (its clicks may be behind the row's) with the active flag set as
\* it likes
CallUpdate(self) ==
    /\ procs[self].pc = "idle"
    /\ \E id \in RowIds, clicks \in 0..MaxClicks, isActive \in BOOLEAN :
          /\ clicks <= urls[id].Clicks
          /\ UNCHANGED rl /\ procs' = [procs EXCEPT ![self] =
                [Idle EXCEPT !.op = "Update", !.pc = "Update", !.id = id,
                             !.url = Some([urls[id] EXCEPT
                                              !.Clicks = clicks,
                                              !.IsActive = isActive])]]
    /\ UNCHANGED <<urls, url_clicks, cache, now, okClicks>>

\* r.db.Exec of the UPDATE; the row exists, so a row is affected
UpdateExec(self) ==
    LET pr == procs[self]
    IN  /\ pr.op = "Update" /\ pr.pc = "Update"
        /\ \E dbErr \in BOOLEAN :
              IF dbErr
              THEN /\ UNCHANGED rl /\ procs' = [procs EXCEPT ![self] =
                                  [pr EXCEPT !.pc = "done", !.err = ErrUpdate,
                                             !.backendErr = TRUE]]
                   /\ UNCHANGED urls
              ELSE /\ urls' = UpdatedRows(Deref(pr.url))
                   /\ UNCHANGED rl /\ procs' = [procs EXCEPT ![self] =
                                  [pr EXCEPT !.pc = "done"]]
        /\ UNCHANGED <<url_clicks, cache, now, okClicks>>

(* ------------------------- Handler.RedirectURL ------------------------ *)

\* GET /{shortCode}: h.urlService.GetURL(r.Context(), shortCode)
CallRedirectURL(self) ==
    /\ procs[self].pc = "idle"
    /\ \A id \in RowIds : urls[id].Clicks < MaxClicks
    /\ \E shortCode \in Lookups :
          UNCHANGED rl /\ procs' = [procs EXCEPT ![self] =
                      [Idle EXCEPT !.op = "GetURL", !.pc = "cache.GetURL",
                                   !.shortCode = shortCode,
                                   !.ctx = "Request", !.inHandler = TRUE]]
    /\ UNCHANGED <<urls, url_clicks, cache, now, okClicks>>

\* GetURL failed: respondError and return
RedirectNotFound(self) ==
    LET pr == procs[self]
    IN  /\ pr.inHandler /\ pr.op = "GetURL" /\ pr.pc = "done"
        /\ pr.err # NoErr
        /\ UNCHANGED rl /\ procs' = [procs EXCEPT ![self] = Idle]
        /\ UNCHANGED <<urls, url_clicks, cache, now, okClicks>>

\* go func() { ... h.urlService.RecordClick(r.Context(), shortCode, ...) }()
RedirectSpawn(self, g) ==
    LET pr == procs[self]
    IN  /\ pr.inHandler /\ pr.op = "GetURL" /\ pr.pc = "done"
        /\ pr.err = NoErr
        /\ g # self /\ procs[g].pc = "idle"
        /\ UNCHANGED rl /\ procs' = [procs EXCEPT
              ![self] = [pr EXCEPT !.op = "RedirectURL",
                                   !.pc = "http.Redirect", !.child = g],
              ![g] = [Idle EXCEPT !.op = "RecordClick",
                                  !.pc = "GetByShortCode",
                                  !.shortCode = pr.shortCode,
                                  !.ctx = "Request"]]
        /\ UNCHANGED <<urls, url_clicks, cache, now, okClicks>>

\* http.Redirect writes the response and RedirectURL returns; net/http then
\* cancels the request's context, which the started goroutine still uses
RedirectReturn(self) ==
    LET pr == procs[self]
        g == pr.child
    IN  /\ pr.op = "RedirectURL" /\ pr.pc = "http.Redirect"
        /\ UNCHANGED rl /\ procs' = [procs EXCEPT
              ![self] = Idle,
              ![g] = IF procs[g].ctx = "Request"
                     THEN [procs[g] EXCEPT !.ctx = "Canceled"]
                     ELSE procs[g]]
        /\ UNCHANGED <<urls, url_clicks, cache, now, okClicks>>

(* ------------------------- alias validation --------------------------- *)

\* aliases of every length up to MaxAliasLen, made of "a" with one rune of
\* AliasRunes first, last or nowhere
AliasRunes == {"a", "z", "A", "Z", "0", "9", "-", "_", " ", "@",
               "U+0060", "{", "[", "/", ":", ".", EAcute}

AliasInputs ==
    {[k \in 1..n |-> IF k = pos THEN c ELSE "a"] :
        <<n, c, pos>> \in {t \in (0..MaxAliasLen) \X AliasRunes
                                  \X (0..MaxAliasLen) :
                              t[3] \in {0, 1, t[1]}}}

\* a caller hands an alias to validator.ValidateCustomAlias or to
\* domain's isValidAlias
CallValidateAlias(self) ==
    /\ procs[self].pc = "idle"
    /\ \E alias \in AliasInputs,
          op \in {"ValidateCustomAlias", "isValidAlias"} :
          UNCHANGED rl /\ procs' = [procs EXCEPT ![self] =
                      [Idle EXCEPT !.op = op, !.pc = op,
                                   !.customAlias = alias]]
    /\ UNCHANGED <<urls, url_clicks, cache, now, okClicks>>

RunValidateCustomAlias(self) ==
    LET pr == procs[self]
    IN  /\ pr.op = "ValidateCustomAlias" /\ pr.pc = "ValidateCustomAlias"
        /\ UNCHANGED rl /\ procs' = [procs EXCEPT ![self] =
                        [pr EXCEPT !.pc = "done",
                                   !.err = ValidateCustomAlias(pr.customAlias),
                                   !.ok = (ValidateCustomAlias(pr.customAlias)
                                             = NoErr)]]
        /\ UNCHANGED <<urls, url_clicks, cache, now, okClicks>>

RunIsValidAlias(self) ==
    LET pr == procs[self]
    IN  /\ pr.op = "isValidAlias" /\ pr.pc = "isValidAlias"
        /\ UNCHANGED rl /\ procs' = [procs EXCEPT ![self] =
                        [pr EXCEPT !.pc = "done",
                                   !.ok = isValidAlias(pr.customAlias)]]
        /\ UNCHANGED <<urls, url_clicks, cache, now, okClicks>>

(* ------------------------- RateLimiter.Allow -------------------------- *)

Keys == {<<"ip1">>, <<"ip2">>}

\* the middleware hands a request's key to limiter.Allow
CallAllow(self) ==
    /\ procs[self].pc = "idle"
    /\ rl # Nil
    /\ \E key \in Keys :
          UNCHANGED rl /\ procs' = [procs EXCEPT ![self] =
                      [Idle EXCEPT !.op = "Allow", !.pc = "script.Run",
                                   !.key = key]]
    /\ UNCHANGED <<urls, url_clicks, cache, now, okClicks>>

\* the calls a key's counter has let through since it was set
Served(redisKey) ==
    IF Counter(redisKey) = Nil THEN 0 ELSE Deref(Counter(redisKey)).served

\* the counter remembers one more call let through
Serve(store, redisKey, allowed) ==
    IF allowed /\ redisKey \in DOMAIN store
    THEN [store EXCEPT ![redisKey].served = @ + 1]
    ELSE store

\* script.Run(...).Result() and the parsing of its reply
AllowRun(self) ==
    LET pr == procs[self]
        l  == Deref(rl)
        r  == Script(RedisKey(pr.key), l.maxRequests, WindowSeconds(l), now)
    IN  /\ pr.op = "Allow" /\ pr.pc = "script.Run"
        /\ \E cacheErr \in BOOLEAN :
              IF cacheErr \/ (Counter(RedisKey(pr.key)) = Nil /\ SetFails(l))
              THEN /\ UNCHANGED rl /\ procs' = [procs EXCEPT ![self] =
                                 [pr EXCEPT !.pc = "done",
                                            !.err = ErrRateLimit,
                                            !.servedBefore =
                                                Served(RedisKey(pr.key))]]
                   /\ UNCHANGED cache
              ELSE /\ UNCHANGED rl /\ procs' = [procs EXCEPT ![self] =
                                 [pr EXCEPT !.pc = "done",
                                            !.allowed = (r.reply[1] = 1),
                                            !.remaining = r.reply[2],
                                            !.resetTime = r.reply[3],
                                            !.servedBefore =
                                                Served(RedisKey(pr.key))]]
                   /\ cache' = Serve(r.store, RedisKey(pr.key),
                                     r.reply[1] = 1)
        /\ UNCHANGED <<urls, url_clicks, now, okClicks>>

(* ------------------------- TimeoutMiddleware -------------------------- *)

Timeouts == 1..MaxTime

\* a call made on the http.ResponseWriter, and who made it
WriteCall(by, call, status) == [by |-> by, call |-> call, status |-> status]

\* ctx, cancel := context.WithTimeout(r.Context(), timeout); done := make(...);
\* go func() { next.ServeHTTP(w, r.WithContext(ctx)); close(done) }()
CallTimeoutMiddleware(self, g) ==
    /\ self # g
    /\ procs[self].pc = "idle" /\ procs[g].pc = "idle"
    /\ \E timeout \in Timeouts :
          UNCHANGED rl /\ procs' = [procs EXCEPT
              ![self] = [Idle EXCEPT !.op = "TimeoutMiddleware",
                                     !.pc = "select",
                                     !.deadline = now + timeout,
                                     !.child = g, !.inHandler = TRUE],
              ![g] = [Idle EXCEPT !.op = "next.ServeHTTP",
                                  !.pc = "ServeHTTP",
                                  !.ctx = "Request", !.parent = self,
                                  !.inHandler = TRUE]]
    /\ UNCHANGED <<urls, url_clicks, cache, now, okClicks>>

\* the wrapped handler does its work and has its response ready
HandlerServe(g) ==
    LET pr == procs[g]
    IN  /\ pr.op = "next.ServeHTTP" /\ pr.pc = "ServeHTTP"
        /\ UNCHANGED rl /\ procs' = [procs EXCEPT ![g] =
                                       [pr EXCEPT !.pc = "w.WriteHeader"]]
        /\ UNCHANGED <<urls, url_clicks, cache, now, okClicks>>

\* the wrapped handler writes its response to the w it was given, header
\* first and body next
HandlerWrite(g) ==
    LET pr == procs[g]
    IN  /\ pr.op = "next.ServeHTTP"
        /\ pr.pc \in {"w.WriteHeader", "w.Write"}
        /\ UNCHANGED rl /\ procs' = [procs EXCEPT
              ![g] = [pr EXCEPT !.pc = IF pr.pc = "w.WriteHeader"
                                       THEN "w.Write" ELSE "close(done)"],
              ![pr.parent] =
                  [procs[pr.parent] EXCEPT !.w =
                      Append(@, WriteCall("handler",
                                          IF pr.pc = "w.WriteHeader"
                                          THEN "WriteHeader" ELSE "Write",
                                          200))]]
        /\ UNCHANGED <<urls, url_clicks, cache, now, okClicks>>

\* close(done)
HandlerClose(g) ==
    LET pr == procs[g]
    IN  /\ pr.op = "next.ServeHTTP" /\ pr.pc = "close(done)"
        /\ UNCHANGED rl /\ procs' = [procs EXCEPT
              ![g] = [pr EXCEPT !.pc = "done"],
              ![pr.parent] = [procs[pr.parent] EXCEPT !.doneClosed = TRUE]]
        /\ UNCHANGED <<urls, url_clicks, cache, now, okClicks>>

\* case <-done: return
TimeoutDone(self) ==
    LET pr == procs[self]
    IN  /\ pr.op = "TimeoutMiddleware" /\ pr.pc = "select"
        /\ pr.doneClosed
        /\ UNCHANGED rl /\ procs' = [procs EXCEPT ![self] =
                                       [pr EXCEPT !.pc = "done"]]
        /\ UNCHANGED <<urls, url_clicks, cache, now, okClicks>>

\* case <-ctx.Done(): http.Error(w, "Request timeout", 408), which calls
\* w.WriteHeader(408) and then writes the message
TimeoutExpired(self) ==
    LET pr == procs[self]
    IN  /\ pr.op = "TimeoutMiddleware"
        /\ \/ pr.pc = "select" /\ now >= pr.deadline
           \/ pr.pc = "http.Error"
        /\ UNCHANGED rl /\ procs' = [procs EXCEPT ![self] =
              [pr EXCEPT !.pc = IF pr.pc = "select" THEN "http.Error"
                                ELSE "done",
                         !.timedOut = TRUE,
                         !.w = Append(@, WriteCall("middleware",
                                                   IF pr.pc = "select"
                                                   THEN "WriteHeader"
                                                   ELSE "Write", 408))]]
        /\ UNCHANGED <<urls, url_clicks, cache, now, okClicks>>

\* the request is over once the middleware has returned and the goroutine
\* it started has ended
TimeoutRelease(self) ==
    LET pr == procs[self]
    IN  /\ pr.op = "TimeoutMiddleware" /\ pr.pc = "done"
        /\ procs[pr.child].pc = "done"
        /\ UNCHANGED rl /\ procs' = [procs EXCEPT ![self] = Idle,
                                                   ![pr.child] = Idle]
        /\ UNCHANGED <<urls, url_clicks, cache, now, okClicks>>

(* ---------------------------- environment ----------------------------- *)

\* the caller takes the result; the goroutine is free for the next request
Finish(self) ==
    /\ procs[self].pc = "done" /\ ~procs[self].inHandler
    /\ UNCHANGED rl /\ procs' = [procs EXCEPT ![self] = Idle]
    /\ UNCHANGED <<urls, url_clicks, cache, now, okClicks>>

\* time passes; Redis drops the keys whose TTL has run out
Tick ==
    /\ now < MaxTime
    /\ now' = now + 1
    /\ cache' = Unexpired(now + 1)
    /\ UNCHANGED <<urls, url_clicks, procs, okClicks, rl>>

Init ==
    /\ urls = <<>>
    /\ url_clicks = <<>>
    /\ cache = <<>>
    /\ now = 0
    /\ procs = [p \in Procs |-> Idle]
    /\ okClicks = [c \in Lookups |-> 0]
    \* RATE_LIMIT_ENABLED=false: no request reaches a limiter
    /\ rl = Nil

CreateSteps(self) ==
    \/ CreateExistsCustomAlias(self)
    \/ CreateGenerate(self)
    \/ CreateInsert(self)
    \/ CreateSetURL(self)

GetSteps(self) ==
    \/ GetCache(self)
    \/ GetLookupCode(self)
    \/ GetLookupAlias(self)
    \/ GetSetURL(self)

ClickSteps(self) ==
    \/ ClickLookup(self)
    \/ ClickIncrement(self)
    \/ ClickCreate(self)

(* One caller creates links with every kind of input and deletes links. *)
NextCreate ==
    \/ CallCreateShortURL(1, Targets, Aliases, Durations)
    \/ CreateSteps(1)
    \/ CallDeleteURL(1)
    \/ DeleteExec(1)
    \/ Finish(1)

SpecCreate == Init /\ [][NextCreate]_vars

(* Concurrent callers create links for one valid target, with and        *)
(* without an alias, and delete links.                                     *)
NextRace ==
    \/ \E self \in Procs :
          CallCreateShortURL(self, {ValidTarget}, {<<>>, GoodAlias}, {0})
    \/ \E self \in Procs : CreateSteps(self)
    \/ \E self \in Procs : CallDeleteURL(self)
    \/ \E self \in Procs : DeleteExec(self)
    \/ \E self \in Procs : Finish(self)

SpecRace == Init /\ [][NextRace]_vars

(* Concurrent callers record clicks on a link created under an alias and   *)
(* delete it.                                                              *)
NextClicks ==
    \/ \E self \in Procs :
          CallCreateShortURL(self, {ValidTarget}, {GoodAlias}, {0})
    \/ \E self \in Procs : CreateExistsCustomAlias(self)
    \/ \E self \in Procs : CreateInsert(self)
    \/ \E self \in Procs : CreateSetURL(self)
    \/ \E self \in Procs : CallRecordClick(self)
    \/ \E self \in Procs : ClickSteps(self)
    \/ \E self \in Procs : CallDeleteURL(self)
    \/ \E self \in Procs : DeleteExec(self)
    \/ \E self \in Procs : Finish(self)

SpecClicks == Init /\ [][NextClicks]_vars

(* One caller creates, reads and deletes links while time passes.          *)
NextAccess ==
    \/ CallCreateShortURL(1, {ValidTarget}, {<<>>, GoodAlias}, Durations)
    \/ CreateSteps(1)
    \/ CallGetURL(1)
    \/ GetSteps(1)
    \/ CallDeleteURL(1)
    \/ DeleteExec(1)
    \/ Finish(1)
    \/ Tick

SpecAccess == Init /\ [][NextAccess]_vars

(* Goroutines record clicks on a link created under an alias while one     *)
(* caller creates it, deletes it and updates it through the repository.    *)
NextCounter ==
    \/ CallCreateShortURL(1, {ValidTarget}, {GoodAlias}, {0})
    \/ CreateExistsCustomAlias(1)
    \/ CreateInsert(1)
    \/ CreateSetURL(1)
    \/ \E self \in Procs : CallRecordClick(self)
    \/ \E self \in Procs : ClickSteps(self)
    \/ CallDeleteURL(1)
    \/ DeleteExec(1)
    \/ CallUpdate(1)
    \/ UpdateExec(1)
    \/ \E self \in Procs : Finish(self)

SpecCounter == Init /\ [][NextCounter]_vars

(* One caller creates a link under an alias, with or without expiry, reads *)
(* by alias and by code and deletes while time passes.                     *)
NextRead ==
    \/ CallCreateShortURL(1, {ValidTarget}, {GoodAlias}, {0, 1})
    \/ CreateExistsCustomAlias(1)
    \/ CreateInsert(1)
    \/ CreateSetURL(1)
    \/ CallGetURL(1)
    \/ GetSteps(1)
    \/ CallDeleteURL(1)
    \/ DeleteExec(1)
    \/ Finish(1)
    \/ Tick

SpecRead == Init /\ [][NextRead]_vars

(* The stored click history of two links, as RecordClick calls leave it:   *)
(* link 1 (created under an alias) has one of StatsSizes click rows, link 2 *)
(* has none or one row before and one after them; the rows were inserted   *)
(* in the order of their clicked_at and the oldest may share one           *)
(* clicked_at; a GetURL has just cached link 1.                            *)
StatsSizes == {0, 1, StatsLimit - 1, StatsLimit, StatsLimit + 1}

StoredLink(id, shortCode, customAlias, clicks) ==
    [NewURL(ValidTarget, shortCode, "u1", 0)
        EXCEPT !.ID = id, !.CustomAlias = customAlias, !.Clicks = clicks]

StoredClicks(n, other, tied) ==
    LET total == n + (IF other THEN 2 ELSE 0)
    IN  [k \in 1..total |->
            [ID |-> k,
             URLID |-> IF other /\ (k = 1 \/ k = total) THEN 2 ELSE 1,
             ClickedAt |-> IF k <= tied THEN tied ELSE k]]

InitStats ==
    \E n \in StatsSizes, other \in BOOLEAN, tied \in {1, 3} :
        /\ urls = <<StoredLink(1, GoodAlias, Some(GoodAlias), n),
                    StoredLink(2, GenAlias, Nil, IF other THEN 2 ELSE 0)>>
        /\ url_clicks = StoredClicks(n, other, tied)
        /\ now = StatsLimit + 4
        /\ cache = [k \in {GoodAlias} |->
                       [data |-> Marshal(StoredLink(1, GoodAlias,
                                                    Some(GoodAlias), n)),
                        exp |-> StatsLimit + 4 + CacheTTL]]
        /\ procs = [p \in Procs |-> Idle]
        /\ okClicks = [c \in Lookups |->
                          IF c = GoodAlias THEN n
                          ELSE IF c = GenAlias /\ other THEN 2 ELSE 0]
        /\ rl = Nil

(* One caller reads the statistics of the links and deletes links.         *)
NextStats ==
    \/ CallGetURLStats(1)
    \/ StatsLookup(1)
    \/ StatsClicks(1)
    \/ CallDeleteURL(1)
    \/ DeleteExec(1)
    \/ Finish(1)

SpecStats == InitStats /\ [][NextStats]_vars

(* Concurrent callers create a link under an alias and read links.         *)
NextVisible ==
    \/ \E self \in Procs :
          CallCreateShortURL(self, {ValidTarget}, {GoodAlias}, {0})
    \/ \E self \in Procs : CreateExistsCustomAlias(self)
    \/ \E self \in Procs : CreateInsert(self)
    \/ \E self \in Procs : CreateSetURL(self)
    \/ \E self \in Procs : CallGetURL(self)
    \/ \E self \in Procs : GetSteps(self)
    \/ \E self \in Procs : Finish(self)

SpecVisible == Init /\ [][NextVisible]_vars

(* One caller runs the five operations of the service, one after the       *)
(* other, on links created with and without alias.                         *)
NextService ==
    \/ CallCreateShortURL(1, {ValidTarget}, {<<>>, GoodAlias, GenAlias}, {0})
    \/ CreateSteps(1)
    \/ CallGetURL(1)
    \/ GetSteps(1)
    \/ CallRecordClick(1)
    \/ ClickSteps(1)
    \/ CallGetURLStats(1)
    \/ StatsLookup(1)
    \/ StatsClicks(1)
    \/ CallDeleteURL(1)
    \/ DeleteExec(1)
    \/ Finish(1)

SpecService == Init /\ [][NextService]_vars

(* Requests pass TimeoutMiddleware on their way to a handler, and time     *)
(* passes.                                                                 *)
NextTimeout ==
    \/ \E self \in Procs, g \in Procs : CallTimeoutMiddleware(self, g)
    \/ \E g \in Procs : \/ HandlerServe(g)
                         \/ HandlerWrite(g)
                         \/ HandlerClose(g)
    \/ \E self \in Procs : \/ TimeoutDone(self)
                            \/ TimeoutExpired(self)
                            \/ TimeoutRelease(self)
    \/ Tick

SpecTimeout == Init /\ [][NextTimeout]_vars

(* Requests reach a limiter built with some limit, window and burst size,  *)
(* and time passes.                                                        *)
Windows == 0..MaxTime

Limiters ==
    {NewTokenBucketLimiter(m, w, m + b) :
        <<m, w, b>> \in (0..MaxRequests) \X Windows \X (0..MaxBurst)}

InitLimiter ==
    /\ urls = <<>>
    /\ url_clicks = <<>>
    /\ cache = <<>>
    /\ now = 0
    /\ procs = [p \in Procs |-> Idle]
    /\ okClicks = [c \in Lookups |-> 0]
    /\ rl \in {Some(l) : l \in Limiters}

NextLimiter ==
    \/ \E p \in Procs : \/ CallAllow(p)
                         \/ AllowRun(p)
                         \/ Finish(p)
    \/ Tick

SpecLimiter == InitLimiter /\ [][NextLimiter]_vars

(* One caller validates aliases.                                           *)
NextAlias ==
    \/ CallValidateAlias(1)
    \/ RunValidateCustomAlias(1)
    \/ RunIsValidAlias(1)
    \/ Finish(1)

SpecAlias == Init /\ [][NextAlias]_vars

(* Redirect requests for a link created under an alias: each starts a      *)
(* goroutine that records the click.                                       *)
NextRedirect ==
    \/ CallCreateShortURL(1, {ValidTarget}, {GoodAlias}, {0})
    \/ CreateExistsCustomAlias(1)
    \/ CreateInsert(1)
    \/ CreateSetURL(1)
    \/ CallRedirectURL(1)
    \/ GetSteps(1)
    \/ RedirectNotFound(1)
    \/ \E g \in Procs : RedirectSpawn(1, g)
    \/ RedirectReturn(1)
    \/ \E self \in Procs : ClickSteps(self)
    \/ \E self \in Procs : Finish(self)

SpecRedirect == Init /\ [][NextRedirect]_vars

(* The whole service: every caller may run every operation.                *)
Next ==
    \/ \E self \in Procs : CallCreateShortURL(self, Targets, Aliases, Durations)
    \/ \E self \in Procs : CreateSteps(self)
    \/ \E self \in Procs : CallGetURL(self)
    \/ \E self \in Procs : GetSteps(self)
    \/ \E self \in Procs : CallRecordClick(self)
    \/ \E self \in Procs : ClickSteps(self)
    \/ \E self \in Procs : CallGetURLStats(self)
    \/ \E self \in Procs : StatsLookup(self)
    \/ \E self \in Procs : StatsClicks(self)
    \/ \E self \in Procs : CallDeleteURL(self)
    \/ \E self \in Procs : DeleteExec(self)
    \/ \E self \in Procs : CallRedirectURL(self)
    \/ \E self \in Procs : RedirectNotFound(self)
    \/ \E self \in Procs, g \in Procs : RedirectSpawn(self, g)
    \/ \E self \in Procs : RedirectReturn(self)
    \/ \E self \in Procs : Finish(self)
    \/ Tick

Spec == Init /\ [][Next]_vars

(* ------------------------------ error kinds --------------------------- *)

AliasTaken == ErrAliasExists
InvalidAlias == ErrCustomAliasInvalid
InvalidTarget == {ErrEmptyURL, ErrInvalidURL}
CodeSpaceExhausted == ErrAttempts
NotFound == ErrNotFound
Inactive == ErrURLNotActive
Expired == ErrURLExpired

\* a finished call of operation op
Finished(p, op) == procs[p].op = op /\ procs[p].pc = "done"

(* ------------------------------- claims ------------------------------- *)

\* C1: under every interleaving of CreateShortURL calls the urls table never
\* holds two rows with the same short_code.
C1_UniqueCodes ==
    \A a \in RowIds, b \in RowIds :
        a # b => urls[a].ShortCode # urls[b].ShortCode

\* C1 witness: two rows exist and a concurrent call without alias that drew
\* a code another call inserted first was turned down by the store.
C1_Witness ==
    /\ Len(urls) >= 2
    /\ \E p \in Procs :
          /\ Finished(p, "CreateShortURL")
          /\ procs[p].customAlias = <<>>
          /\ procs[p].nTaken = 0
          /\ procs[p].err = ErrCreate
          /\ ~procs[p].backendErr
          /\ ExistsShortCode(procs[p].shortCode)

\* RecordClick calls for a code that have incremented and not yet returned
ClicksInFlight(code) ==
    {p \in Procs : /\ procs[p].op = "RecordClick"
                   /\ procs[p].pc = "clickRepo.Create"
                   /\ procs[p].shortCode = code}

\* C2: a link's clicks counter equals the number of RecordClick calls for
\* its code that returned without error plus those that have incremented
\* and are about to return: with N error-free calls it ends N above its
\* value at creation, whatever the interleaving.
C2_NoLostClicks ==
    \A id \in RowIds :
        urls[id].Clicks = okClicks[urls[id].ShortCode]
                          + Cardinality(ClicksInFlight(urls[id].ShortCode))

\* C2 witness: two RecordClick calls for the same code have both
\* incremented while neither has returned.
C2_Witness ==
    \E id \in RowIds :
        /\ urls[id].Clicks = 2
        /\ Cardinality(ClicksInFlight(urls[id].ShortCode)) = 2

\* C3: a GetURL call answered from the cache returns what a service whose
\* cache always misses returns for the same call on the same store.
C3_CacheTransparent ==
    \A p \in Procs :
        (Finished(p, "GetURL") /\ procs[p].hit)
            => /\ procs[p].retURL = procs[p].refURL
               /\ procs[p].err = procs[p].refErr

\* the store holds a soft-deleted row for the code
SoftDeleted(code) ==
    \E id \in RowIds : urls[id].ShortCode = code /\ ~urls[id].IsActive

\* C4: a GetURL call for the code of a link that was soft-deleted before
\* fails with Inactive.
C4_DeletedIsInactive ==
    \A p \in Procs :
        (Finished(p, "GetURL") /\ SoftDeleted(procs[p].shortCode))
            => /\ procs[p].err = Inactive
               /\ procs[p].retURL = Nil

\* a CreateShortURL call with a negative duration has returned a record
CreatedWithNegativeTTL(p) ==
    /\ Finished(p, "CreateShortURL")
    /\ procs[p].expiresIn < 0
    /\ procs[p].err = NoErr

\* C5 as stated: a link created with a negative ttl has an expiresAt in the
\* past and a GetURL right after the creation fails with Expired.
C5_NegativeTTLExpired ==
    \A p \in Procs :
        CreatedWithNegativeTTL(p)
            => /\ Deref(procs[p].retURL).ExpiresAt # Nil
               /\ GetURLNow(procs[p].shortCode).err = Expired

\* C5 amended: a link created with a negative ttl has no expiresAt, and a
\* GetURL right after the creation returns the record.
C5_NegativeTTLIgnored ==
    \A p \in Procs :
        CreatedWithNegativeTTL(p)
            => /\ Deref(procs[p].retURL).ExpiresAt = Nil
               /\ GetURLNow(procs[p].shortCode) =
                     [url |-> procs[p].retURL, err |-> NoErr]

\* C5 witness: a creation with ttl -1 has returned its record.
C5_Witness ==
    \E p \in Procs :
        /\ CreatedWithNegativeTTL(p)
        /\ procs[p].expiresIn = -1
        /\ procs[p].retURL # Nil

\* C6: a CreateShortURL call without alias makes at most 10 existence
\* checks; when every check reported the candidate as existing the call
\* has made exactly 10, fails with CodeSpaceExhausted, returns no record
\* and has called neither the store's Create nor the cache's SetURL.
C6_CollisionBound ==
    \A p \in Procs :
        (procs[p].op = "CreateShortURL" /\ procs[p].customAlias = <<>>)
            => /\ procs[p].nExists <= MaxAttempts
               /\ (procs[p].pc = "done" /\ procs[p].nTaken = procs[p].nExists)
                     => /\ procs[p].err = CodeSpaceExhausted
                        /\ procs[p].nExists = MaxAttempts
                        /\ procs[p].retURL = Nil
                        /\ procs[p].nCreate = 0
                        /\ procs[p].nSet = 0

\* C6 witness: a call gave up after ten colliding candidates.
C6_Witness ==
    \E p \in Procs :
        /\ Finished(p, "CreateShortURL")
        /\ procs[p].err = CodeSpaceExhausted
        /\ procs[p].nTaken = MaxAttempts

\* C7: a CreateShortURL call whose alias was the custom_alias of a row,
\* active or soft-deleted, when the store was asked fails with AliasTaken,
\* returns no record and calls neither Create nor SetURL.
C7_AliasTaken ==
    \A p \in Procs :
        (Finished(p, "CreateShortURL") /\ procs[p].aliasUsed
            /\ ~procs[p].backendErr)
            => /\ procs[p].err = AliasTaken
               /\ procs[p].retURL = Nil
               /\ procs[p].nCreate = 0
               /\ procs[p].nSet = 0

\* C7 witness: the alias of a soft-deleted row was turned down.
C7_Witness ==
    \E p \in Procs :
        /\ Finished(p, "CreateShortURL")
        /\ procs[p].err = AliasTaken
        /\ \E id \in RowIds : /\ urls[id].CustomAlias = Some(procs[p].customAlias)
                              /\ ~urls[id].IsActive


\* the target is empty or whitespace-only, has a scheme other than http and
\* https, or has an empty host
TargetInvalid(target) ==
    \/ TrimSpace(target) = <<>>
    \/ Parse(target).Scheme \notin {<<"h","t","t","p">>, <<"h","t","t","p","s">>}
    \/ Parse(target).Host = <<>>

\* C8: a CreateShortURL call for a valid target whose alias was the
\* short_code of a row created without alias fails with AliasTaken and
\* inserts nothing.
C8_SharedNamespace ==
    \A p \in Procs :
        (Finished(p, "CreateShortURL") /\ procs[p].genCodeUsed
            /\ ~procs[p].backendErr /\ ~TargetInvalid(procs[p].originalURL))
            => /\ procs[p].err = AliasTaken
               /\ procs[p].retURL = Nil

\* C9: a CreateShortURL call with a non-empty alias of length outside 3..20
\* or with a character outside [A-Za-z0-9_-] fails with InvalidAlias,
\* whatever the target, and inserts nothing.
C9_InvalidAlias ==
    \A p \in Procs :
        (Finished(p, "CreateShortURL") /\ procs[p].customAlias # <<>>
            /\ ~isValidAlias(procs[p].customAlias) /\ ~procs[p].backendErr)
            => /\ procs[p].err = InvalidAlias
               /\ procs[p].retURL = Nil

\* C10 as stated: a CreateShortURL call with an invalid target fails with
\* InvalidTarget, returns no record and calls neither Create nor SetURL.
C10_InvalidTarget ==
    \A p \in Procs :
        (Finished(p, "CreateShortURL") /\ TargetInvalid(procs[p].originalURL)
            /\ ~procs[p].backendErr)
            => /\ procs[p].err \in InvalidTarget
               /\ procs[p].retURL = Nil
               /\ procs[p].nCreate = 0
               /\ procs[p].nSet = 0

\* C10 amended: a CreateShortURL call with an invalid target returns an
\* error and no record and calls neither Create nor SetURL; the error is
\* InvalidTarget when the code was resolved (the alias was free, or a free
\* code was drawn), and the error of the code resolution otherwise.
C10_InvalidTargetAfterCode ==
    \A p \in Procs :
        (Finished(p, "CreateShortURL") /\ TargetInvalid(procs[p].originalURL))
            => /\ procs[p].retURL = Nil
               /\ procs[p].nCreate = 0
               /\ procs[p].nSet = 0
               /\ IF procs[p].shortCode # <<>>
                  THEN procs[p].err \in InvalidTarget
                  ELSE procs[p].err \in {AliasTaken, CodeSpaceExhausted,
                                         ErrCheckAlias, ErrGenerate}

\* C10 witness: a target without host was turned down after its code was
\* resolved.
C10_Witness ==
    \E p \in Procs :
        /\ Finished(p, "CreateShortURL")
        /\ procs[p].originalURL = <<"h","t","t","p",":","/","/","/">>
        /\ procs[p].shortCode # <<>>
        /\ procs[p].err = ErrInvalidURL

\* C11: a CreateShortURL call whose store Create failed returns an error and
\* no record and has not called the cache's SetURL; a call whose Create
\* succeeded and whose cache write failed returns the inserted record
\* without error.
C11_CreateAndCacheFailure ==
    \A p \in Procs :
        Finished(p, "CreateShortURL")
            => /\ procs[p].createFailed
                     => /\ procs[p].err # NoErr
                        /\ procs[p].retURL = Nil
                        /\ procs[p].nSet = 0
               /\ (procs[p].nCreate = 1 /\ ~procs[p].createFailed
                      /\ procs[p].setFailed)
                     => /\ procs[p].err = NoErr
                        /\ procs[p].retURL # Nil
                        /\ Deref(procs[p].retURL).ID \in RowIds
                        /\ urls[Deref(procs[p].retURL).ID].ShortCode
                              = Deref(procs[p].retURL).ShortCode
                        /\ Deref(procs[p].retURL).OriginalURL
                              = procs[p].originalURL

\* C11 witness: a call has returned its record after a failed cache write.
C11_Witness ==
    \E p \in Procs :
        /\ Finished(p, "CreateShortURL")
        /\ procs[p].setFailed /\ procs[p].retURL # Nil
        /\ procs[p].shortCode \notin DOMAIN cache

\* C11 witness of the failed Create: the store turned the insert down on a
\* backend error, after an earlier call's cache write had failed.
C11_WitnessCreateFailed ==
    \E p \in Procs :
        /\ Finished(p, "CreateShortURL")
        /\ procs[p].createFailed /\ procs[p].backendErr
        /\ procs[p].shortCode \notin DOMAIN cache
        /\ \E id \in RowIds : urls[id].ShortCode \notin DOMAIN cache

\* C12: a GetURL call that found a record under its key in the cache has
\* made no call to the store (neither GetByShortCode nor GetByCustomAlias)
\* and answers from the cached record: it returns that record, or the error
\* of the cached record's access check and no record.
C12_CacheHitNoStore ==
    \A p \in Procs :
        (Finished(p, "GetURL") /\ procs[p].hit)
            => /\ procs[p].nStore = 0
               /\ procs[p].err = CanBeAccessed(Deref(procs[p].url), procs[p].at)
               /\ procs[p].retURL =
                     IF procs[p].err = NoErr THEN procs[p].url ELSE Nil

\* C12 witness: a call was answered with the cached record although the
\* store no longer resolves the code.
C12_Witness ==
    \E p \in Procs :
        /\ Finished(p, "GetURL") /\ procs[p].hit
        /\ procs[p].retURL # Nil
        /\ GetByShortCode(procs[p].shortCode) = Nil
        /\ GetByCustomAlias(procs[p].shortCode) = Nil

\* C13: a GetURL call that missed the cache while the store resolves its
\* code to an accessible record returns that record without error, whether
\* or not the cache write failed; when the write succeeded the cache holds
\* the same record under the requested key until its TTL runs out.
C13_MissPopulatesCache ==
    \A p \in Procs :
        (Finished(p, "GetURL") /\ ~procs[p].hit /\ ~procs[p].backendErr
            /\ GetURLWithoutCache(procs[p].shortCode).url # Nil)
            => /\ procs[p].err = NoErr
               /\ procs[p].retURL = GetURLWithoutCache(procs[p].shortCode).url
               /\ (~procs[p].setFailed /\ now < procs[p].at + CacheTTL)
                     => CacheGetURL(procs[p].shortCode) = procs[p].retURL

\* C13 witness: a call that missed the cache has returned the store's record
\* and the cache holds it; the record has an alias and an expiry.
C13_Witness ==
    \E p \in Procs :
        /\ Finished(p, "GetURL") /\ ~procs[p].hit
        /\ procs[p].nStore > 0 /\ ~procs[p].setFailed
        /\ procs[p].retURL # Nil
        /\ Deref(procs[p].retURL).CustomAlias # Nil
        /\ Deref(procs[p].retURL).ExpiresAt # Nil
        /\ CacheGetURL(procs[p].shortCode) = procs[p].retURL

\* C13 witness of the failed write: the record was returned and the cache
\* holds nothing under the key.
C13_WitnessWriteFailed ==
    \E p \in Procs :
        /\ Finished(p, "GetURL") /\ ~procs[p].hit
        /\ procs[p].setFailed /\ procs[p].retURL # Nil
        /\ procs[p].shortCode \notin DOMAIN cache

\* a returned record is active and its expiresAt is unset or not passed by
\* the clock value t the access check read (the call itself began before
\* that reading)
Accessible(u, t) ==
    /\ u.IsActive
    /\ u.ExpiresAt = Nil \/ Deref(u.ExpiresAt) >= t

\* C14: a record GetURL returns, from the cache or from the store, is active
\* and not expired at the time of the call; a cache hit on a record whose
\* expiresAt has passed fails with Expired; a call for the code of a record
\* with active = false fails with Inactive, whatever its expiresAt.
C14_AccessPolicy ==
    \A p \in Procs :
        (Finished(p, "GetURL") /\ ~procs[p].backendErr)
            => /\ procs[p].retURL # Nil
                     => Accessible(Deref(procs[p].retURL), procs[p].at)
               /\ (procs[p].hit /\ Deref(procs[p].url).IsActive
                      /\ Deref(procs[p].url).ExpiresAt # Nil
                      /\ Deref(Deref(procs[p].url).ExpiresAt) < procs[p].at)
                     => procs[p].err = Expired /\ procs[p].retURL = Nil
               /\ SoftDeleted(procs[p].shortCode)
                     => procs[p].err = Inactive /\ procs[p].retURL = Nil

\* C15: a click recording started by a redirect whose store calls met no
\* backend failure has applied the increment and returned no error when it
\* ends, also when RedirectURL has returned meanwhile: the end of the
\* request never aborts the recording.
C15_RecordingOutlivesRequest ==
    \A p \in Procs :
        (Finished(p, "RecordClick") /\ procs[p].ctx # "Background"
            /\ ~procs[p].backendErr
            /\ GetByShortCode(procs[p].shortCode) # Nil)
            => /\ ~procs[p].aborted
               /\ procs[p].nInc = 1
               /\ procs[p].err = NoErr

\* C16: a RecordClick call for a code the store did not resolve when it
\* was asked fails with "URL not found" and has neither incremented a
\* counter nor appended a click, whatever the cache holds under the code.
C16_ClickNotFound ==
    \A p \in Procs :
        (Finished(p, "RecordClick") /\ procs[p].refURL = Nil)
            => /\ procs[p].err = NotFound
               /\ procs[p].nInc = 0
               /\ procs[p].nAppend = 0

\* C16 witness: the call failed for the code of a soft-deleted link that
\* the cache still holds.
C16_Witness ==
    \E p \in Procs :
        /\ Finished(p, "RecordClick") /\ procs[p].refURL = Nil
        /\ procs[p].err = NotFound
        /\ SoftDeleted(procs[p].shortCode)
        /\ CacheGetURL(procs[p].shortCode) # Nil

\* C17: a RecordClick call whose increment succeeded and whose click append
\* failed returns no error and its increment is still counted in the row;
\* a call whose increment failed returns an error and has appended no click.
C17_ClickAppendBestEffort ==
    \A p \in Procs :
        Finished(p, "RecordClick")
            => /\ (procs[p].nInc = 1 /\ procs[p].appendFailed)
                     => /\ procs[p].err = NoErr
                        /\ procs[p].nAppend = 0
                        /\ okClicks[procs[p].shortCode] >= 1
                        /\ urls[Deref(procs[p].url).ID].Clicks
                              = okClicks[procs[p].shortCode]
                                + Cardinality(ClicksInFlight(procs[p].shortCode))
               /\ procs[p].incFailed
                     => /\ procs[p].err = ErrIncrement
                        /\ procs[p].nInc = 0
                        /\ procs[p].nAppend = 0

\* C17 witness: one call has returned without error after a failed append
\* while another has failed in the increment on a backend error.
C17_Witness ==
    \E p \in Procs, q \in Procs :
        /\ Finished(p, "RecordClick")
        /\ procs[p].nInc = 1 /\ procs[p].appendFailed
        /\ Finished(q, "RecordClick")
        /\ procs[q].incFailed /\ procs[q].backendErr
        /\ url_clicks = <<>>

\* the click rows of a link
ClicksOf(urlID) == {k \in 1..Len(url_clicks) : url_clicks[k].URLID = urlID}

\* C18: a GetURLStats call that met no backend failure answers from the
\* store: for a code the store does not resolve it fails with NotFound,
\* whatever the cache holds; otherwise it returns the store's row and
\* min(n, 100) distinct click rows of that link, n being the number stored,
\* ordered newest first, none of them older than a row left out; with no
\* click rows it returns the empty sequence and no error.
C18_StatsNewestFirst ==
    \A p \in Procs :
        (Finished(p, "GetURLStats") /\ ~procs[p].backendErr)
            => IF procs[p].refURL = Nil
               THEN procs[p].err = NotFound /\ procs[p].retURL = Nil
               ELSE LET u == Deref(procs[p].refURL)
                        res == procs[p].retClicks
                        n == Cardinality(ClicksOf(u.ID))
                        got == {res[j].ID : j \in 1..Len(res)}
                    IN  /\ procs[p].err = NoErr
                        /\ procs[p].retURL = procs[p].refURL
                        /\ Len(res) = IF n < 100 THEN n ELSE 100
                        /\ Cardinality(got) = Len(res)
                        /\ got \subseteq ClicksOf(u.ID)
                        /\ \A j \in 1..Len(res) : res[j] = url_clicks[res[j].ID]
                        /\ \A i \in 1..Len(res), j \in 1..Len(res) :
                              i < j => res[i].ClickedAt >= res[j].ClickedAt
                        /\ \A k \in ClicksOf(u.ID) \ got, j \in 1..Len(res) :
                              res[j].ClickedAt >= url_clicks[k].ClickedAt

\* C18 witness: the link has 101 click rows and rows of another link lie
\* among them; the call returned 100 of them and left out one of the
\* oldest.
C18_Witness ==
    \E p \in Procs :
        /\ Finished(p, "GetURLStats") /\ procs[p].err = NoErr
        /\ Cardinality(ClicksOf(Deref(procs[p].retURL).ID)) = 101
        /\ Cardinality(ClicksOf(2)) = 2
        /\ Len(procs[p].retClicks) = 100
        /\ procs[p].retClicks[1].ClickedAt > procs[p].retClicks[100].ClickedAt

\* C18 witness of the empty history
C18_WitnessEmpty ==
    \E p \in Procs :
        /\ Finished(p, "GetURLStats") /\ procs[p].err = NoErr
        /\ procs[p].retURL # Nil /\ procs[p].retClicks = <<>>

\* C19: a GetURL call that missed the cache and whose store lookup failed
\* on a backend error, for a code the store holds, returns an error that is
\* neither NotFound nor one of the access errors.
C19_BackendFailureDistinct ==
    \A p \in Procs :
        (Finished(p, "GetURL") /\ ~procs[p].hit /\ procs[p].backendErr
            /\ GetByShortCode(procs[p].shortCode) # Nil)
            => /\ procs[p].retURL = Nil
               /\ procs[p].err \notin {NoErr, NotFound, Inactive, Expired}

\* the aliases the specification accepts: 3 to 20 characters, each of
\* [A-Za-z0-9_-]
AliasWellFormed(alias) ==
    /\ Len(alias) >= 3 /\ Len(alias) <= 20
    /\ \A k \in 1..Len(alias) :
          alias[k] \in
              {"A","B","C","D","E","F","G","H","I","J","K","L","M",
               "N","O","P","Q","R","S","T","U","V","W","X","Y","Z",
               "a","b","c","d","e","f","g","h","i","j","k","l","m",
               "n","o","p","q","r","s","t","u","v","w","x","y","z",
               "0","1","2","3","4","5","6","7","8","9","_","-"}

C20_WitnessTooLong ==
    \E p \in Procs :
        /\ Finished(p, "ValidateCustomAlias")
        /\ ~procs[p].ok /\ procs[p].err = ErrInvalidAliasLength
        /\ \/ Len(procs[p].customAlias) = 21
           \/ Len(procs[p].customAlias) = 20

\* C21: no step removes a row of urls; a new row starts with clicks = 0;
\* every step leaves a row's clicks as they are or adds one, and it adds
\* one only as the IncrementClicks of a RecordClick call: the creation of
\* other links, Update and Delete never lower or reset a counter.
C21_ClicksMonotone ==
    [][/\ Len(urls') >= Len(urls)
       /\ \A id \in 1..Len(urls') :
             IF id \in RowIds
             THEN \/ urls'[id].Clicks = urls[id].Clicks
                  \/ /\ urls'[id].Clicks = urls[id].Clicks + 1
                     /\ \E p \in Procs :
                           /\ procs[p].op = "RecordClick"
                           /\ procs[p].pc = "IncrementClicks"
                           /\ procs'[p].pc = "clickRepo.Create"
             ELSE urls'[id].Clicks = 0]_vars

\* C21 witness: Update has written a record whose clicks were behind the
\* row's, and the row has kept its clicks.
C21_Witness ==
    \E p \in Procs :
        /\ Finished(p, "Update") /\ procs[p].err = NoErr
        /\ Deref(procs[p].url).Clicks < urls[procs[p].id].Clicks
        /\ urls[procs[p].id].Clicks = MaxClicks
        /\ ~urls[procs[p].id].IsActive

(* C22: for any key and any interleaving of concurrent Allow calls, the    *)
(* calls that return allowed = true between the creation of the key's      *)
(* counter and its expiry never number more than maxRequests, and a call   *)
(* made once the limit is reached returns allowed = false with             *)
(* remaining = 0 until the counter expires.                                *)
C22_AllowedWithinLimit ==
    /\ \A key \in Keys : Served(RedisKey(key)) <= Deref(rl).maxRequests
    /\ \A p \in Procs :
          (/\ Finished(p, "Allow")
           /\ procs[p].err = NoErr
           /\ procs[p].servedBefore >= Deref(rl).maxRequests)
          => (~procs[p].allowed /\ procs[p].remaining = 0)

(* C28: a limiter built with burstSize > maxRequests lets a burst of up    *)
(* to burstSize requests through before it rejects: a call that finds      *)
(* fewer than burstSize calls let through in the window is allowed.        *)
C28_BurstAllowed ==
    \A p \in Procs :
        (/\ Finished(p, "Allow")
         /\ procs[p].err = NoErr
         /\ Deref(rl).maxRequests >= 1
         /\ Deref(rl).burstSize > Deref(rl).maxRequests
         /\ procs[p].servedBefore < Deref(rl).burstSize)
        => procs[p].allowed

(* C23: in CreateShortURL the alias existence check comes before the       *)
(* validation of the target: a call whose alias was the custom_alias of a  *)
(* row when the store was asked and whose target is invalid fails with     *)
(* AliasTaken and not with InvalidTarget.                                  *)
C23_AliasCheckedFirst ==
    \A p \in Procs :
        (/\ Finished(p, "CreateShortURL")
         /\ procs[p].aliasUsed
         /\ ~procs[p].backendErr
         /\ TargetInvalid(procs[p].originalURL))
        => /\ procs[p].err = AliasTaken
           /\ procs[p].err \notin InvalidTarget

\* C23 witness: a call with a taken alias and a target of scheme ftp was
\* turned down with AliasTaken.
C23_Witness ==
    \E p \in Procs :
        /\ Finished(p, "CreateShortURL")
        /\ procs[p].aliasUsed
        /\ procs[p].originalURL = <<"f","t","p",":","/","/","a">>
        /\ procs[p].err = AliasTaken

C25_EventsWithinClicks ==
    /\ \A id \in RowIds : Cardinality(ClicksOf(id)) <= urls[id].Clicks
    /\ \A p \in Procs :
          procs[p].op = "RecordClick" => procs[p].nAppend <= procs[p].nInc

\* C25 witness: two calls incremented a link's counter, the append of one
\* failed and the append of the other stored an event.
C25_Witness ==
    \E id \in RowIds :
        /\ urls[id].Clicks = 2
        /\ Cardinality(ClicksOf(id)) = 1
        /\ \E p \in Procs : /\ Finished(p, "RecordClick")
                             /\ procs[p].nInc = 1
                             /\ procs[p].appendFailed

\* the store holds a row with the id and the code of record u
Committed(u) ==
    \E id \in RowIds : urls[id].ID = u.ID /\ urls[id].ShortCode = u.ShortCode

(* C26: no dirty reads: in every reachable state every cache entry holds a *)
(* record that the store holds with the same id and code; CreateShortURL   *)
(* writes the cache only after Create has succeeded; and a GetURL running  *)
(* beside a CreateShortURL never returns a record the store does not hold. *)
C26_NoDirtyReads ==
    /\ \A k \in DOMAIN cache : Committed(Unmarshal(cache[k].data))
    /\ \A p \in Procs :
          (/\ procs[p].op = "CreateShortURL"
           /\ procs[p].pc = "SetURL" \/ procs[p].nSet > 0)
          => /\ ~procs[p].createFailed
             /\ Committed(Deref(procs[p].url))
    /\ \A p \in Procs :
          (Finished(p, "GetURL") /\ procs[p].retURL # Nil)
          => Committed(Deref(procs[p].retURL))

\* C26 witness: a GetURL that found the link neither in the cache nor, at
\* first, anywhere returned while the CreateShortURL of that link had
\* inserted the row and not yet written the cache.
C26_Witness ==
    \E p, q \in Procs :
        /\ Finished(p, "GetURL")
        /\ procs[p].retURL # Nil
        /\ ~procs[p].hit
        /\ procs[q].op = "CreateShortURL"
        /\ procs[q].pc = "SetURL"
        /\ Deref(procs[q].url).ShortCode = Deref(procs[p].retURL).ShortCode

(* C27: Inactive is terminal: once a row has is_active = false, no step of *)
(* CreateShortURL, GetURL, RecordClick, GetURLStats or DeleteURL sets it   *)
(* back to true, the row keeps its code, and no new row gets that code.    *)
C27_InactiveTerminal ==
    [][\A id \in RowIds :
          ~urls[id].IsActive
          => /\ id \in DOMAIN urls'
             /\ ~urls'[id].IsActive
             /\ urls'[id].ShortCode = urls[id].ShortCode
             /\ \A k \in DOMAIN urls' :
                   urls'[k].ShortCode = urls[id].ShortCode => k = id]_vars

\* C27 witness: a CreateShortURL whose alias is the code of a deleted link
\* has failed, and the link is still inactive.
C27_Witness ==
    \E id \in RowIds :
        /\ ~urls[id].IsActive
        /\ Finished(1, "CreateShortURL")
        /\ procs[1].customAlias = urls[id].ShortCode
        /\ procs[1].err # NoErr

(* C29: when two CreateShortURL calls with the same valid, unused alias    *)
(* run concurrently, exactly one succeeds and stores a row and the other   *)
(* fails with AliasTaken: beside a call that succeeded, every other call   *)
(* under that alias that met no backend failure has failed with            *)
(* AliasTaken; and the store never holds two rows for the alias.           *)
C29_OneAliasWinner ==
    /\ \A p \in Procs, q \in Procs :
          (/\ p # q
           /\ Finished(p, "CreateShortURL") /\ Finished(q, "CreateShortURL")
           /\ procs[p].customAlias # <<>>
           /\ procs[q].customAlias = procs[p].customAlias
           /\ procs[p].err = NoErr
           /\ ~procs[q].backendErr)
          => /\ procs[q].err = AliasTaken
             /\ procs[q].retURL = Nil
    /\ \A a \in RowIds, b \in RowIds :
          (urls[a].CustomAlias # Nil /\ urls[a].CustomAlias = urls[b].CustomAlias)
          => a = b

(* C30: when the wrapped handler has not finished by the timeout, the      *)
(* response is written by one party only: the middleware writes 408 and    *)
(* the handler goroutine makes no call on the same ResponseWriter beside   *)
(* or after that write, that is, no call of the handler follows a call of  *)
(* the middleware on w.                                                    *)
C30_SingleWriter ==
    \A p \in Procs :
        (procs[p].op = "TimeoutMiddleware" /\ procs[p].timedOut)
        => \A j \in 1..Len(procs[p].w), k \in 1..Len(procs[p].w) :
              (j < k /\ procs[p].w[j].by = "middleware")
              => procs[p].w[k].by = "middleware"

=============================================================================
